---- MODULE Spec2Model ----
(***************************************************************************)
(* A model of the wxvx verification pipeline: the idempotent asset cache   *)
(* (workflow.proxy), the partial-fetch client (net.fetch with              *)
(* util.atomic) and the task graph declared in workflow.py.                *)
(***************************************************************************)
EXTENDS Integers, Sequences, FiniteSets, TLC

VARIABLES
    files,      \* the filesystem: path -> [exists, data]
    db,         \* the dbm.sqlite3 store "db.sqlite": key -> "none" | "0" | "1"
    th,         \* worker threads inside proxy(): thread -> record
    seenTrue,   \* history: path -> some proxy() call has returned True for it
    probedTrue, \* history: path -> is_file() was True at some probe of it
    fx,         \* the fetch() call in progress: record
    conf,       \* the run's request: [root, compare, mask, nvars, maxlead]
    phase,      \* "new" before the task graph is assembled, "exec" after
    st,         \* task -> state of the step in this run
    runs,       \* task -> number of times its body has started
    mem,        \* task -> the in-memory asset (idxdata dict, forecast dataset)
    faults,     \* number of unavailable inputs and failures met so far
    atStart,    \* the filesystem as it was when the run started
    out,        \* history: task -> how its body ended ("none" if it has not)
    ix,         \* the index being parsed and the Range header built from it
    pt,         \* the output paths derived for the steps requested so far
    ex,         \* the expand() call in progress: record
    tp,         \* a pair of TimeCoords objects and the results of comparing them
    ml,         \* the metlevel() call: record
    rc,         \* the metconf.render() call in progress: record
    wf          \* the workflow helper being called: record

gvars == <<conf, phase, st, runs, mem, faults, atStart, out>>
uvars == <<ex, tp, ml, rc, wf>>
vars == <<files, db, th, seenTrue, probedTrue, fx, gvars, ix, pt, uvars>>

(***************************************************************************)
(* Bounds                                                                  *)
(***************************************************************************)
NumThreads == 2
MaxChunks == 2
NumVars == 2
MaxLead == 1
MaxFaults == 1
MaxCells == 2
MaxRecs == 3
MaxOffset == 3
MaxHalfHours == 2
MaxTime == 3
MaxStep == 2
MaxHour == 1
MaxTick == 1
TicksPerSecond == 2
MaxHundreds == 10
MaxUnits == 2
MaxFields == 1
MaxLines == 2

Threads == 1..NumThreads
Paths == {"a", "b"}
\* atomic: tmp = Path("%s.tmp" % path)
Tmp_InPlace(p) == p

Tmp(p) == p \o ".tmp"
AllPaths == Paths \cup {Tmp(p) : p \in Paths}

NoFile == [exists |-> FALSE, data |-> <<>>]
FileOf(d) == [exists |-> TRUE, data |-> d]
IsFile(fs, p) == fs[p].exists

(***************************************************************************)
(* workflow.proxy: the readiness predicate bound to a path                 *)
(***************************************************************************)
StoreVals == {"none", "0", "1"}

\* dbm stores False/True as the blobs b"0"/b"1"
StoreOf_Content(b) == IF b THEN "data" ELSE "0"

StoreOf(b) == IF b THEN "1" ELSE "0"

\* exists = bool(int(val))
RememberedTrue(val) == val = "1"

\* the value the KeyError branch takes for "exists" (no filesystem probe)
MissingKeyExists_True(fs, p) == TRUE

MissingKeyExists(fs, p) == FALSE

\* whether a remembered value sends the call to the filesystem
MustProbe_Always(val) == TRUE

MustProbe_Never(val) == FALSE

MustProbe(val) == ~RememberedTrue(val)

IdleThread == [pc |-> "idle", path |-> "a", exists |-> FALSE, missing |-> FALSE,
               fsAtMiss |-> FALSE, val |-> "none", probed |-> FALSE,
               probeVal |-> FALSE, after |-> FALSE]

\* proxy() is called: db = _db(); key = str(path)
ProxyCall(t, p) ==
    /\ th[t].pc = "idle"
    /\ th' = [th EXCEPT ![t] = [IdleThread EXCEPT !.pc = "read", !.path = p,
                                                  !.after = seenTrue[p]]]
    /\ UNCHANGED <<files, db, seenTrue, probedTrue, fx, gvars, ix, pt, uvars>>

\* val = db[key], KeyError or not
ProxyRead(t) ==
    /\ th[t].pc = "read"
    /\ LET p == th[t].path
           val == db[p]
       IN  IF val = "none"
           THEN th' = [th EXCEPT ![t].pc = "store_missing",
                                 ![t].missing = TRUE,
                                 ![t].fsAtMiss = IsFile(files, p),
                                 ![t].exists = MissingKeyExists(files, p)]
           ELSE th' = [th EXCEPT ![t].val = val,
                                 ![t].exists = RememberedTrue(val),
                                 ![t].pc = IF MustProbe(val) THEN "probe" ELSE "ret"]
    /\ UNCHANGED <<files, db, seenTrue, probedTrue, fx, gvars, ix, pt, uvars>>

\* except KeyError: db[key] = exists
ProxyStoreMissing(t) ==
    /\ th[t].pc = "store_missing"
    /\ db' = [db EXCEPT ![th[t].path] = StoreOf(th[t].exists)]
    /\ th' = [th EXCEPT ![t].pc = "ret"]
    /\ UNCHANGED <<files, seenTrue, probedTrue, fx, gvars, ix, pt, uvars>>

\* exists = path.is_file()
ProxyProbe(t) ==
    /\ th[t].pc = "probe"
    /\ LET p == th[t].path
           e == IsFile(files, p)
       IN  /\ th' = [th EXCEPT ![t].exists = e, ![t].probed = TRUE, ![t].probeVal = e,
                               ![t].pc = IF e THEN "store_true" ELSE "ret"]
           /\ probedTrue' = [probedTrue EXCEPT ![p] = @ \/ e]
    /\ UNCHANGED <<files, db, seenTrue, fx, gvars, ix, pt, uvars>>

\* if exists: db[key] = exists
ProxyStoreTrue(t) ==
    /\ th[t].pc = "store_true"
    /\ db' = [db EXCEPT ![th[t].path] = StoreOf(th[t].exists)]
    /\ th' = [th EXCEPT ![t].pc = "ret"]
    /\ UNCHANGED <<files, seenTrue, probedTrue, fx, gvars, ix, pt, uvars>>

\* return exists
ProxyReturn(t) ==
    /\ th[t].pc = "ret"
    /\ seenTrue' = [seenTrue EXCEPT ![th[t].path] = @ \/ th[t].exists]
    /\ th' = [th EXCEPT ![t].pc = "idle"]
    /\ UNCHANGED <<files, db, probedTrue, fx, gvars, ix, pt, uvars>>

\* the file of a path is created or deleted by something outside the cache
ExternalCreate(p) ==
    /\ ~IsFile(files, p)
    /\ files' = [files EXCEPT ![p] = FileOf(<<>>)]
    /\ UNCHANGED <<db, th, seenTrue, probedTrue, fx, gvars, ix, pt, uvars>>

ExternalDelete(p) ==
    /\ IsFile(files, p)
    /\ files' = [files EXCEPT ![p] = NoFile]
    /\ UNCHANGED <<db, th, seenTrue, probedTrue, fx, gvars, ix, pt, uvars>>

(***************************************************************************)
(* net.fetch, writing through util.atomic                                  *)
(***************************************************************************)
Chunks == {"x", "y"}
Bodies == UNION {[1..n -> Chunks] : n \in 0..MaxChunks}
Statuses == {200, 206, 404}
HeaderNames == {"Range", "Accept"}
FetchPaths == {"a"}

IdleFetch == [pc |-> "idle", path |-> "a", given |-> FALSE, names |-> {},
              responded |-> FALSE, status |-> 0, body |-> <<>>, sent |-> 0,
              result |-> FALSE, before |-> NoFile, tmpBefore |-> NoFile]

\* Python's None, and a value that is not None
None == <<>>
Some(x) == <<x>>

\* no index is being parsed
IdleIndex == [pc |-> "idle", lines |-> <<>>, recs |-> <<>>, pos |-> 0, built |-> <<>>,
              idxdata |-> <<>>, header |-> None, hvar |-> 0]

\* no step has been requested
NoPaths == [conf |-> [bname |-> "", fname |-> "", compare |-> FALSE], req |-> <<>>]

\* no expand() call has been made
IdleExpand == [pc |-> "idle", start |-> 0, step |-> 0, stop |-> 0, xs |-> <<>>]

\* no TimeCoords object has been constructed
NoPair == [pc |-> "idle", a |-> <<>>, b |-> <<>>, eq |-> FALSE, lt |-> FALSE,
           hasha |-> 0, hashb |-> 0]

\* no metlevel() call has been made
IdleMet == [pc |-> "idle", level_type |-> "", level |-> None, result |-> <<>>]

\* no render() call has been made
IdleRender == [pc |-> "idle", config |-> <<>>, todo |-> <<>>, lines |-> <<>>,
               text |-> None, error |-> None]

\* no workflow helper is being called
IdleWorkflow == [pc |-> "idle"]

\* none of the utility functions is being called
NoCalls ==
    /\ ex = IdleExpand
    /\ tp = NoPair
    /\ ml = IdleMet
    /\ rc = IdleRender
    /\ wf = IdleWorkflow

\* no task graph is running
NoGraph ==
    /\ conf = [root |-> "none", compare |-> FALSE, mask |-> FALSE, nvars |-> 0,
               maxlead |-> 0]
    /\ phase = "none"
    /\ st = <<>>
    /\ runs = <<>>
    /\ mem = <<>>
    /\ faults = 0
    /\ atStart = <<>>
    /\ out = <<>>

\* a store holds "1" only because an earlier probe found the file
InitProxy ==
    /\ files \in [AllPaths -> {NoFile, FileOf(<<>>)}]
    /\ \A p \in Paths : ~IsFile(files, Tmp(p))
    /\ db \in [Paths -> StoreVals]
    /\ th = [t \in Threads |-> IdleThread]
    /\ seenTrue = [p \in Paths |-> FALSE]
    /\ probedTrue = [p \in Paths |-> db[p] = "1"]
    /\ fx = IdleFetch
    /\ ix = IdleIndex
    /\ pt = NoPaths
    /\ NoGraph
    /\ NoCalls

AllIdle == \A t \in Threads : th[t].pc = "idle"

ProxyStep(t) ==
    \/ ProxyRead(t)
    \/ ProxyStoreMissing(t)
    \/ ProxyProbe(t)
    \/ ProxyStoreTrue(t)
    \/ ProxyReturn(t)

\* worker threads call proxy() concurrently
NextProxy ==
    \/ \E t \in Threads, p \in Paths : ProxyCall(t, p)
    \/ \E t \in Threads : ProxyStep(t)
    \/ \E p \in Paths : ExternalCreate(p)
    \/ \E p \in Paths : ExternalDelete(p)

SpecProxy == InitProxy /\ [][NextProxy]_vars

\* one call at a time (threads = 1, the default)
NextProxySeq ==
    \/ \E t \in Threads, p \in Paths : AllIdle /\ ProxyCall(t, p)
    \/ \E t \in Threads : ProxyStep(t)
    \/ \E p \in Paths : ExternalCreate(p)
    \/ \E p \in Paths : ExternalDelete(p)

SpecProxySeq == InitProxy /\ [][NextProxySeq]_vars

\* expected = PARTIAL_CONTENT if headers and "Range" in headers else OK
Expected_IgnoresRange(given, names) == 200

Expected(given, names) ==
    IF given /\ names # {} /\ "Range" \in names THEN 206 ELSE 200

\* the filesystem after the branch taken for a non-matching status: return False
OnMismatch_WritesBody(fs, p, body) == [fs EXCEPT ![p] = FileOf(body)]

OnMismatch(fs, p, body) == fs

\* fetch(taskname, url, path, headers) is called
FetchCall(p, given, names) ==
    /\ fx.pc \in {"idle", "done", "raised"}
    /\ fx' = [IdleFetch EXCEPT !.pc = "get", !.path = p, !.given = given,
                               !.names = names, !.before = files[p],
                               !.tmpBefore = files[Tmp(p)]]
    /\ UNCHANGED <<files, db, th, seenTrue, probedTrue, gvars, ix, pt, uvars>>

\* response = session().get(...): a response arrives
FetchGet(status, body) ==
    /\ fx.pc = "get"
    /\ fx' = [fx EXCEPT !.pc = "check", !.responded = TRUE, !.status = status,
                        !.body = body]
    /\ UNCHANGED <<files, db, th, seenTrue, probedTrue, gvars, ix, pt, uvars>>

\* session().get(...) times out or the connection fails: requests raises
FetchGetRaises ==
    /\ fx.pc = "get"
    /\ fx' = [fx EXCEPT !.pc = "raised"]
    /\ UNCHANGED <<files, db, th, seenTrue, probedTrue, gvars, ix, pt, uvars>>

\* if response.status_code == expected: mkdir, atomic(path), tmp.open("wb")
FetchCheck ==
    /\ fx.pc = "check"
    /\ IF fx.status = Expected(fx.given, fx.names)
       THEN /\ files' = [files EXCEPT ![Tmp(fx.path)] = FileOf(<<>>)]
            /\ fx' = [fx EXCEPT !.pc = "write"]
       ELSE /\ files' = OnMismatch(files, fx.path, fx.body)
            /\ fx' = [fx EXCEPT !.pc = "done", !.result = FALSE]
    /\ UNCHANGED <<db, th, seenTrue, probedTrue, gvars, ix, pt, uvars>>

\* for chunk in response.iter_content(...): f.write(chunk)
FetchWrite ==
    /\ fx.pc = "write"
    /\ fx.sent < Len(fx.body)
    /\ files' = [files EXCEPT ![Tmp(fx.path)] =
                    FileOf(Append(@.data, fx.body[fx.sent + 1]))]
    /\ fx' = [fx EXCEPT !.sent = @ + 1]
    /\ UNCHANGED <<db, th, seenTrue, probedTrue, gvars, ix, pt, uvars>>

\* atomic: the filesystem after the body of the with block has raised; the
\* exception comes out of the yield, so tmp.rename(path) is not reached
OnBodyRaises_Renames(fs, p) == [fs EXCEPT ![p] = fs[Tmp(p)], ![Tmp(p)] = NoFile]

OnBodyRaises(fs, p) == fs

\* the transfer breaks while the body is streamed: iter_content raises, and
\* atomic (no try/finally) never reaches its rename
FetchTransferRaises ==
    /\ fx.pc = "write"
    /\ fx.sent < Len(fx.body)
    /\ fx' = [fx EXCEPT !.pc = "raised"]
    /\ files' = OnBodyRaises(files, fx.path)
    /\ UNCHANGED <<db, th, seenTrue, probedTrue, gvars, ix, pt, uvars>>

\* the with block ends: tmp.rename(path); return True
FetchRename ==
    /\ fx.pc = "write"
    /\ fx.sent = Len(fx.body)
    /\ files' = [files EXCEPT ![fx.path] = files[Tmp(fx.path)],
                              ![Tmp(fx.path)] = NoFile]
    /\ fx' = [fx EXCEPT !.pc = "done", !.result = TRUE]
    /\ UNCHANGED <<db, th, seenTrue, probedTrue, gvars, ix, pt, uvars>>

InitFetch ==
    /\ files \in [AllPaths -> {NoFile, FileOf(<<"x">>)}]
    /\ \A p \in AllPaths : IsFile(files, p) => p \in FetchPaths \cup {Tmp(q) : q \in FetchPaths}
    /\ db = [p \in Paths |-> "none"]
    /\ th = [t \in Threads |-> IdleThread]
    /\ seenTrue = [p \in Paths |-> FALSE]
    /\ probedTrue = [p \in Paths |-> FALSE]
    /\ fx = IdleFetch
    /\ ix = IdleIndex
    /\ pt = NoPaths
    /\ NoGraph
    /\ NoCalls

NextFetch ==
    \/ \E p \in FetchPaths, given \in BOOLEAN, names \in SUBSET HeaderNames :
            (given \/ names = {}) /\ FetchCall(p, given, names)
    \/ \E status \in Statuses, body \in Bodies : FetchGet(status, body)
    \/ FetchGetRaises
    \/ FetchCheck
    \/ FetchWrite
    \/ FetchTransferRaises
    \/ FetchRename

SpecFetch == InitFetch /\ [][NextFetch]_vars

(***************************************************************************)
(* workflow.py: the tasks and the requirements each one yields             *)
(***************************************************************************)
Vars == 1..NumVars
Cycles == {0}
Leads == 0..MaxLead

\* c.variables and c.leadtimes of a configuration
VarsOf(c) == 1..c.nvars
LeadsOf(c) == 0..c.maxlead

\* gen_validtimes(c.cycles, c.leadtimes)
ValidTimes(c) == {<<cy, l>> : cy \in Cycles, l \in LeadsOf(c)}

\* a task, named as its taskname names it: the task function, and the source,
\* variable, cycle and lead time the name holds ("" and 0 where it holds none)
N(k, s, v, c, l) == [kind |-> k, src |-> s, var |-> v, cycle |-> c, lead |-> l]

GridGrib(c, l, v) == N("grid_grib", "", v, c, l)
IdxData(c, l) == N("idx_data", "", 0, c, l)
IdxFile(c, l) == N("idx_file", "", 0, c, l)
GridNc(c, l, v) == N("grid_nc", "", v, c, l)
FcstDs(c, l) == N("fcst_ds", "", 0, c, l)
Existing(c, l) == N("existing", "", 0, c, l)
PolyFile == N("polyfile", "", 0, 0, 0)
Stat(s, v, c, l) == N("stat", s, v, c, l)
Plot(c, v) == N("plot", "", v, c, 0)

\* _grid_grib: idxdata = _grib_index_data(c, outdir, tc, url=...); yield idxdata
GridGribReqs_PerVariable(n) == {N("idx_data", "", n.var, n.cycle, n.lead)}

GridGribReqs(n) == {IdxData(n.cycle, n.lead)}

\* _grib_index_data: idxfile = _grib_index_file(outdir, url); yield idxfile
IdxDataReqs(n) == {IdxFile(n.cycle, n.lead)}

\* _grib_index_file: yield None (no requirement, no status() call)
IdxFileReqs(n) == {}

\* _grid_nc: fd = _forecast_dataset(Path(c.forecast.path.format(...))); yield fd
GridNcReqs(n) == {FcstDs(n.cycle, n.lead)}

\* _forecast_dataset: yield _existing(path)
FcstDsReqs(n) == {Existing(n.cycle, n.lead)}

\* _stat: reqs = [toverify, baseline] (+ forecast for Source.BASELINE)
\* (+ polyfile when c.forecast.mask)
StatReqs_NoBaseline(n, mask) ==
    LET forecast == GridNc(n.cycle, n.lead, n.var)
        toverify == IF n.src = "baseline"
                    THEN GridGrib(n.cycle, n.lead, n.var) ELSE forecast
    IN  {toverify}
        \cup (IF n.src = "baseline" THEN {forecast} ELSE {})
        \cup (IF mask THEN {PolyFile} ELSE {})

StatReqs_EveryGrid(n, mask) ==
    {GridGrib(n.cycle, n.lead, n.var), GridGrib(n.cycle + n.lead, 0, n.var),
     GridNc(n.cycle, n.lead, n.var)}
    \cup (IF mask THEN {PolyFile} ELSE {})

StatReqs(n, mask) ==
    LET baseline == GridGrib(n.cycle + n.lead, 0, n.var)
        forecast == GridNc(n.cycle, n.lead, n.var)
        toverify == IF n.src = "baseline"
                    THEN GridGrib(n.cycle, n.lead, n.var) ELSE forecast
    IN  {toverify, baseline}
        \cup (IF n.src = "baseline" THEN {forecast} ELSE {})
        \cup (IF mask THEN {PolyFile} ELSE {})

\* _statreqs(c, varname, level, cycle): the forecast comparisons, then the
\* baseline ones if c.baseline.compare
StatReqsOf(v, cycles, c) ==
    {Stat("forecast", v, cy, l) : cy \in cycles, l \in LeadsOf(c)}
    \cup (IF c.compare
          THEN {Stat("baseline", v, cy, l) : cy \in cycles, l \in LeadsOf(c)}
          ELSE {})

\* _plot: reqs = _statreqs(c, varname, level, cycle); yield reqs
PlotReqs_AllVariables(n, c) == UNION {StatReqsOf(v, {n.cycle}, c) : v \in VarsOf(c)}

PlotReqs(n, c) == StatReqsOf(n.var, {n.cycle}, c)

\* the requirements a task yields under configuration c
Reqs(n, c) ==
    CASE n.kind = "grid_grib" -> GridGribReqs(n)
      [] n.kind = "idx_data" -> IdxDataReqs(n)
      [] n.kind = "idx_file" -> IdxFileReqs(n)
      [] n.kind = "grid_nc" -> GridNcReqs(n)
      [] n.kind = "fcst_ds" -> FcstDsReqs(n)
      [] n.kind = "stat" -> StatReqs(n, c.mask)
      [] n.kind = "plot" -> PlotReqs(n, c)
      [] OTHER -> {}

\* grids(c), stats(c), plots(c): the requirements of the public tasks
RootReqs(c) ==
    CASE c.root = "grids" ->
            UNION {{GridNc(t[1], t[2], v), GridGrib(t[1] + t[2], 0, v)}
                   \cup (IF c.compare THEN {GridGrib(t[1], t[2], v)} ELSE {})
                   : t \in ValidTimes(c), v \in VarsOf(c)}
      [] c.root = "stats" -> UNION {StatReqsOf(v, Cycles, c) : v \in VarsOf(c)}
      [] c.root = "plots" -> {Plot(cy, v) : cy \in Cycles, v \in VarsOf(c)}
      [] OTHER -> {}

Roots == {"grids", "stats", "plots"}
Confs == {c \in [root : Roots, compare : BOOLEAN, mask : BOOLEAN,
                 nvars : 1..NumVars, maxlead : 0..MaxLead] :
            /\ c.nvars * (c.maxlead + 1) <= MaxCells
            \* grids(c) never reads c.forecast.mask
            /\ c.root = "grids" => ~c.mask}

RECURSIVE Closure(_, _)
Closure(S, c) ==
    LET T == S \cup UNION {Reqs(n, c) : n \in S}
    IN  IF T = S THEN S ELSE Closure(T, c)

\* every task the request of configuration c can reach
NodesOf(c) == Closure(RootReqs(c), c)

\* asset(path, proxy(path)): the tasks whose asset is a file behind proxy
ProxyKinds == {"idx_file", "grid_grib", "grid_nc", "polyfile", "stat", "plot"}
\* asset(idxdata, lambda: bool(idxdata)), asset(ds, lambda: bool(ds))
MemKinds == {"idx_data", "fcst_ds"}

\* one whole proxy() call: the value it returns and the value it leaves stored
ProxyResult(val, isfile) ==
    IF val = "none" THEN MissingKeyExists(<<>>, <<>>)
    ELSE IF MustProbe(val) THEN isfile ELSE RememberedTrue(val)

ProxyStored(val, isfile) ==
    IF val = "none" THEN StoreOf(MissingKeyExists(<<>>, <<>>))
    ELSE IF MustProbe(val) /\ isfile THEN StoreOf(isfile) ELSE val

\* _existing: asset(path, path.exists)
ExistingReady_Always(fs, n) == TRUE

ExistingReady(fs, n) == IsFile(fs, n)

\* the readiness predicate of a task's asset
AssetReady(n, fs, dbv, memv) ==
    CASE n.kind \in ProxyKinds -> ProxyResult(dbv[n], IsFile(fs, n))
      [] n.kind \in MemKinds -> memv[n] # {}
      [] OTHER -> ExistingReady(fs, n)

StoreAfterCheck(n, fs, dbv) ==
    IF n.kind \in ProxyKinds THEN ProxyStored(dbv[n], IsFile(fs, n)) ELSE dbv[n]

(***************************************************************************)
(* The bodies of the tasks: what can come of running one                   *)
(***************************************************************************)
\* "ok": the body produced its asset; "miss": it ended without producing it
\* (fetch returned False, the index holds none or not all of the variables,
\* the dataset is empty, grid_stat exited without writing a .stat file);
\* "part": the dataset opened holds some field but not all the configured
\* ones; "raise": it raised
BodyOutcomes(n, memv) ==
    CASE n.kind = "idx_file" -> {"ok", "miss", "raise"}
      [] n.kind = "idx_data" -> {"ok", "miss"}
      [] n.kind = "grid_grib" ->
            \* var_idxdata = idxdata.ref[str(var)]
            IF \A d \in GridGribReqs(n) : n.var \in memv[d]
            THEN {"ok", "miss", "raise"} ELSE {"raise"}
      [] n.kind = "fcst_ds" -> {"ok", "part", "miss", "raise"}
      [] n.kind = "grid_nc" ->
            \* da_select: da = ds[varname] ... except KeyError: raise WXVXError
            IF \A d \in GridNcReqs(n) : n.var \in memv[d]
            THEN {"ok", "raise"} ELSE {"raise"}
      [] n.kind = "polyfile" -> {"ok"}
      [] n.kind = "stat" -> {"ok", "miss", "raise"}
      [] n.kind = "plot" -> {"ok", "raise"}
      [] OTHER -> {}

\* an outcome the environment chooses, as opposed to one the state forces
IsFault(n, o, memv) == o # "ok" /\ "ok" \in BodyOutcomes(n, memv)

\* the in-memory asset after the body: the idxdata entries; the fields of the
\* dataset (0 stands for a field that is none of the configured variables)
MemAfter(n, o, present, old, all) ==
    CASE n.kind = "idx_data" -> IF o = "ok" THEN all ELSE present
      [] n.kind = "fcst_ds" ->
            IF o = "ok" THEN all ELSE IF o = "part" THEN present \cup {0} ELSE {}
      [] OTHER -> old

\* whether the body ends by an exception: mpexec runs the engine with
\* check=False, so an engine that exits non-zero raises nothing
BodyRaises_CheckedExit(n, o) == o = "raise" \/ (n.kind = "stat" /\ o = "miss")

BodyRaises(n, o) == o = "raise"

\* the file of the task after the body
FileAfter(n, o, old) ==
    IF o = "ok" /\ n.kind \in ProxyKinds THEN FileOf(<<>>) ELSE old

(***************************************************************************)
(* The task-graph runtime, as the specification states its contract        *)
(***************************************************************************)
NotReadyEnd == {"BLOCKED", "UNREADY", "FAILED"}
Tasks == DOMAIN st

\* a task some requirement of which ended not ready is skipped
RECURSIVE Propagate(_, _)
Propagate(s, c) ==
    LET bad == {n \in DOMAIN s : /\ s[n] = "DEPENDENCIES_PENDING"
                                 /\ \E d \in Reqs(n, c) : s[d] \in NotReadyEnd}
    IN  IF bad = {} THEN s
        ELSE Propagate([n \in DOMAIN s |-> IF n \in bad THEN "BLOCKED" ELSE s[n]], c)

\* the tasks the request reaches: the requirements of a task whose asset is
\* ready are not looked at
RECURSIVE VisitClosure(_, _, _, _, _)
VisitClosure(S, c, fs, dbv, memv) ==
    LET T == S \cup UNION {Reqs(n, c) : n \in {m \in S : ~AssetReady(m, fs, dbv, memv)}}
    IN  IF T = S THEN S ELSE VisitClosure(T, c, fs, dbv, memv)

\* the public task is called: every task it reaches has its readiness checked
Assemble ==
    /\ phase = "new"
    /\ LET V == VisitClosure(RootReqs(conf), conf, files, db, mem)
           s0 == [n \in Tasks |->
                    IF n \notin V THEN "NOT_STARTED"
                    ELSE IF AssetReady(n, files, db, mem) THEN "READY"
                    ELSE IF n.kind = "existing" THEN "UNREADY"
                    ELSE "DEPENDENCIES_PENDING"]
       IN  /\ st' = Propagate(s0, conf)
           /\ db' = [n \in Tasks |->
                        IF n \in V THEN StoreAfterCheck(n, files, db) ELSE db[n]]
    /\ phase' = "exec"
    /\ UNCHANGED <<files, th, seenTrue, probedTrue, fx, conf, runs, mem, faults, atStart,
                   out, ix, pt, uvars>>

\* the order in which the pool is handed the tasks that can run: the task
\* nearest the request first
KindRank(k) ==
    CASE k = "plot" -> 0 [] k = "stat" -> 1 [] k = "grid_nc" -> 2
      [] k = "grid_grib" -> 3 [] k = "fcst_ds" -> 4 [] k = "idx_data" -> 5
      [] k = "idx_file" -> 6 [] OTHER -> 7

Rank(n) ==
    (((KindRank(n.kind) * 2 + (IF n.src = "baseline" THEN 1 ELSE 0))
        * (NumVars + 1) + n.var) * (MaxLead + 1) + n.cycle) * (MaxLead + 1) + n.lead

Eligible_NoComparison(n) ==
    /\ st[n] = "DEPENDENCIES_PENDING"
    /\ n.kind # "stat"
    /\ \A d \in Reqs(n, conf) : d \in Tasks /\ st[d] = "READY"

Eligible(n) ==
    /\ st[n] = "DEPENDENCIES_PENDING"
    /\ \A d \in Reqs(n, conf) : d \in Tasks /\ st[d] = "READY"

\* a worker takes a task all of whose requirements are ready: its body starts
Run(n) ==
    /\ phase = "exec"
    /\ Eligible(n)
    /\ \A m \in Tasks : Eligible(m) => Rank(n) <= Rank(m)
    /\ Cardinality({m \in Tasks : st[m] = "RUNNING"}) < NumThreads
    /\ st' = [st EXCEPT ![n] = "RUNNING"]
    /\ runs' = [runs EXCEPT ![n] = @ + 1]
    /\ UNCHANGED <<files, db, th, seenTrue, probedTrue, fx, conf, phase, mem, faults,
                   atStart, out, ix, pt, uvars>>

\* the body ends; unless it raised, the readiness of the asset is checked again
Finish(n, o, present) ==
    /\ phase = "exec"
    /\ st[n] = "RUNNING"
    /\ o \in BodyOutcomes(n, mem)
    /\ IF (n.kind = "idx_data" /\ o = "miss") \/ (n.kind = "fcst_ds" /\ o = "part")
       THEN present \subseteq VarsOf(conf) /\ present # VarsOf(conf)
       ELSE present = {}
    /\ IsFault(n, o, mem) => faults < MaxFaults
    /\ faults' = IF IsFault(n, o, mem) THEN faults + 1 ELSE faults
    /\ files' = [files EXCEPT ![n] = FileAfter(n, o, @)]
    /\ mem' = [mem EXCEPT ![n] = MemAfter(n, o, present, @, VarsOf(conf))]
    /\ out' = [out EXCEPT ![n] = o]
    /\ db' = IF BodyRaises(n, o) THEN db
             ELSE [db EXCEPT ![n] = StoreAfterCheck(n, files', db)]
    /\ st' = Propagate([st EXCEPT ![n] =
                          IF BodyRaises(n, o) THEN "FAILED"
                          ELSE IF AssetReady(n, files', db, mem') THEN "READY"
                          ELSE "UNREADY"], conf)
    /\ UNCHANGED <<th, seenTrue, probedTrue, fx, conf, phase, runs, atStart, ix, pt, uvars>>

\* a run starts: a request; forecast source files, present or not; at most one
\* artifact or store entry left by an earlier run (a stored "0" without a file
\* acts as no entry does and is left out).  Each missing source and each
\* left-over counts towards MaxFaults.
InitGraph ==
    /\ conf \in Confs
    /\ phase = "new"
    /\ LET ns == NodesOf(conf)
           sources == {n \in ns : n.kind = "existing"}
           proxied == {n \in ns : n.kind \in ProxyKinds}
       IN  /\ \E missing \in {{}} \cup {{n} : n \in sources},
                 old \in {{}} \cup {{n} : n \in proxied},
                 isfile \in BOOLEAN, val \in StoreVals :
                   /\ old = {} => (~isfile /\ val = "none")
                   /\ old # {} => (isfile \/ val = "1")
                   /\ Cardinality(missing) + Cardinality(old) <= MaxFaults
                   /\ files = [n \in ns |->
                                 IF n \in sources \ missing \/ (n \in old /\ isfile)
                                 THEN FileOf(<<>>) ELSE NoFile]
                   /\ db = [n \in ns |-> IF n \in old THEN val ELSE "none"]
                   /\ faults = Cardinality(missing) + Cardinality(old)
           /\ st = [n \in ns |-> "NOT_STARTED"]
           /\ runs = [n \in ns |-> 0]
           /\ mem = [n \in ns |-> {}]
           /\ out = [n \in ns |-> "none"]
    /\ atStart = files
    /\ th = [t \in Threads |-> IdleThread]
    /\ seenTrue = [p \in Paths |-> FALSE]
    /\ probedTrue = [p \in Paths |-> FALSE]
    /\ fx = IdleFetch
    /\ ix = IdleIndex
    /\ pt = NoPaths
    /\ NoCalls

NextGraph ==
    \/ Assemble
    \/ \E n \in Tasks : Run(n)
    \/ \E n \in Tasks, o \in {"ok", "part", "miss", "raise"}, present \in SUBSET Vars :
            Finish(n, o, present)

SpecGraph == InitGraph /\ [][NextGraph]_vars

\* the workers of the pool keep taking the tasks that can run, and a body
\* that has started ends; the request is for the statistics of one variable
\* at one cycle and lead time, in a new run directory with the forecast there
InitGraphFair ==
    /\ InitGraph
    /\ conf.root = "stats" /\ conf.nvars = 1 /\ conf.maxlead = 0 /\ ~conf.mask
    /\ faults = 0

SpecGraphFair == InitGraphFair /\ [][NextGraph]_vars /\ WF_vars(NextGraph)

(***************************************************************************)
(* _grib_index_data: the byte ranges read from a GRIB index, and the Range *)
(* header _grid_grib builds from one                                       *)
(***************************************************************************)
\* the names a record of the index can hold: a configured variable, or 0 for
\* a field that is none of them
IndexNames == 0..NumVars
Offsets == 0..MaxOffset

\* a line "n:offset:d=...:NAME:level:...:" split at ":" (fields 1 and 3, 4)
IndexRecord(off, name) == [off |-> off, name |-> name]

\* lines.append(":-1:::::")  # end marker
EndMarker == IndexRecord(-1, 0)

\* GFS.__init__: self.lastbyte = lastbyte if lastbyte > -1 else None
LastByteOf_Unchecked(lastbyte) == Some(lastbyte)

LastByteOf(lastbyte) == IF lastbyte > -1 THEN Some(lastbyte) ELSE None

\* baseline_class(name=..., levstr=..., firstbyte=..., lastbyte=...)
BaselineVar(name, firstbyte, lastbyte) ==
    [name |-> name, firstbyte |-> firstbyte, lastbyte |-> LastByteOf(lastbyte)]

\* the truth value Python gives "lb" in "if lb": None and 0 are false
Truthy(lb) == lb # None /\ lb[1] # 0

\* "bytes=%s" % (f"{fb}-{lb}" if lb else fb): the header "bytes=<first>-<last>"
\* is [first, last |-> Some(last)], the header "bytes=<first>" is
\* [first, last |-> None]
RangeHeader(fb, lb) ==
    IF Truthy(lb) THEN [first |-> fb, last |-> Some(lb[1])]
    ELSE [first |-> fb, last |-> None]

\* lines = idxfile.ref.read_text(...).strip().split("\n"); the end marker is
\* appended
IndexRead ==
    /\ ix.pc = "read"
    /\ ix' = [ix EXCEPT !.pc = "pair", !.recs = Append(ix.lines, EndMarker), !.pos = 1]
    /\ UNCHANGED <<files, db, th, seenTrue, probedTrue, fx, gvars, pt, uvars>>

\* one turn of "for this_record, next_record in pairwise(...)"
IndexPair ==
    /\ ix.pc = "pair"
    /\ ix.pos < Len(ix.recs)
    /\ LET this_record == ix.recs[ix.pos]
           next_record == ix.recs[ix.pos + 1]
           baseline_var == BaselineVar(this_record.name, this_record.off,
                                       next_record.off - 1)
       IN  ix' = [ix EXCEPT
                    !.built = Append(@, baseline_var),
                    \* if baseline_var in vxvars: idxdata[str(baseline_var)] = ...
                    !.idxdata = IF baseline_var.name \in 1..NumVars
                                THEN [@ EXCEPT ![baseline_var.name] = Some(baseline_var)]
                                ELSE @,
                    !.pos = @ + 1,
                    !.pc = IF ix.pos + 1 < Len(ix.recs) THEN "pair" ELSE "done"]
    /\ UNCHANGED <<files, db, th, seenTrue, probedTrue, fx, gvars, pt, uvars>>

\* _grid_grib for variable v: var_idxdata = idxdata.ref[str(var)];
\* fb, lb = var_idxdata.firstbyte, var_idxdata.lastbyte; headers = {"Range": ...}
GridGribHeader(v) ==
    /\ ix.pc = "done"
    /\ ix.idxdata[v] # None
    /\ LET var_idxdata == ix.idxdata[v][1]
       IN  ix' = [ix EXCEPT !.header = Some(RangeHeader(var_idxdata.firstbyte,
                                                        var_idxdata.lastbyte)),
                            !.hvar = v]
    /\ UNCHANGED <<files, db, th, seenTrue, probedTrue, fx, gvars, pt, uvars>>

\* an index file of one to MaxRecs records has been fetched
InitIndex ==
    /\ \E n \in 1..MaxRecs :
         \E offs \in [1..n -> Offsets], names \in [1..n -> IndexNames] :
            ix = [IdleIndex EXCEPT
                    !.pc = "read",
                    !.lines = [i \in 1..n |-> IndexRecord(offs[i], names[i])],
                    !.idxdata = [v \in 1..NumVars |-> None]]
    /\ files = [p \in AllPaths |-> NoFile]
    /\ db = [p \in Paths |-> "none"]
    /\ th = [t \in Threads |-> IdleThread]
    /\ seenTrue = [p \in Paths |-> FALSE]
    /\ probedTrue = [p \in Paths |-> FALSE]
    /\ fx = IdleFetch
    /\ pt = NoPaths
    /\ NoGraph
    /\ NoCalls

NextIndex ==
    \/ IndexRead
    \/ IndexPair
    \/ \E v \in 1..NumVars : GridGribHeader(v)

SpecIndex == InitIndex /\ [][NextIndex]_vars

(***************************************************************************)
(* The output path each step derives from its key                          *)
(***************************************************************************)
\* baseline.name (the names model_class knows) and forecast.name (any string)
BaselineNames == {"GFS", "HRRR"}
ForecastNames == {"gfs", "Forecast"}

\* str.lower()
Lower(name) ==
    CASE name = "GFS" -> "gfs"
      [] name = "HRRR" -> "hrrr"
      [] name = "Forecast" -> "forecast"
      [] OTHER -> name

\* cycles and lead times, in minutes (cycles and leadtimes take hh[:mm[:ss]]
\* steps)
CycleTimes == {0, 30}
LeadTimes == {30 * i : i \in 0..MaxHalfHours}

\* yyyymmdd(dt), hh(dt): dt.strftime("%Y%m%d"), dt.strftime("%H")
Yyyymmdd(t) == t \div 1440
Hh(t) == (t % 1440) \div 60

\* tcinfo: "%03d" % (tc.leadtime.total_seconds() // 3600)
LeadHours(l) == (l * 60) \div 3600

\* str(var) is "-".join of name, level type and level; replace("-", "_")
VarStr(v) == [sep |-> "-", id |-> v]
Underscored(str) == [str EXCEPT !.sep = "_"]

\* name = (c.baseline if source == Source.BASELINE else c.forecast).name.lower()
\* prefix = "%s_%s" % (name, str(var).replace("-", "_"))
Prefix(cfg, source, v) ==
    [name |-> Lower(IF source = "baseline" THEN cfg.bname ELSE cfg.fname),
     var |-> Underscored(VarStr(v))]

NoPrefix == [name |-> "", var |-> VarStr(0)]

\* the key of a step: kind, source, variable, cycle, lead time
StepKey(kind, source, v, cycle, lead) ==
    [kind |-> kind, source |-> source, var |-> v, cycle |-> cycle, lead |-> lead]

\* _grid_grib: c.paths.grids_baseline / yyyymmdd / hh / leadtime / f"{var}.grib2"
GridGribPath(k) ==
    [root |-> "grids_baseline", yyyymmdd |-> Yyyymmdd(k.cycle), hh |-> Hh(k.cycle),
     leadtime |-> LeadHours(k.lead), var |-> VarStr(k.var), prefix |-> NoPrefix,
     lead |-> 0, vday |-> 0, vhh |-> 0, ext |-> ".grib2"]

\* _grid_grib: url = c.baseline.url.format(yyyymmdd=yyyymmdd, hh=hh,
\* fh=int(leadtime)), a template filled with the parts tcinfo gives
GridGribUrl(k) ==
    [yyyymmdd |-> Yyyymmdd(k.cycle), hh |-> Hh(k.cycle), fh |-> LeadHours(k.lead)]

\* TimeCoords.__eq__: two time coordinates are equal when their validity
\* times (cycle + leadtime) have the same whole-second timestamp
SameTimeCoords(k1, k2) == k1.cycle + k1.lead = k2.cycle + k2.lead

\* the arguments of two requests compare equal: same configuration (one per
\* run), same variable, same source, equal time coordinates
EqualArguments(k1, k2) ==
    /\ k1.kind = k2.kind
    /\ k1.source = k2.source
    /\ k1.var = k2.var
    /\ SameTimeCoords(k1, k2)

\* _grid_nc: c.paths.grids_forecast / yyyymmdd / hh / leadtime / f"{var}.nc"
GridNcPath(k) ==
    [root |-> "grids_forecast", yyyymmdd |-> Yyyymmdd(k.cycle), hh |-> Hh(k.cycle),
     leadtime |-> LeadHours(k.lead), var |-> VarStr(k.var), prefix |-> NoPrefix,
     lead |-> 0, vday |-> 0, vhh |-> 0, ext |-> ".nc"]

\* _stat: c.paths.run / "stats" / yyyymmdd / hh / leadtime /
\* "grid_stat_%s_%02d0000L_%s_%s0000V.stat" % (prefix, int(leadtime), valid...)
StatPath(k, cfg) ==
    [root |-> "run/stats", yyyymmdd |-> Yyyymmdd(k.cycle), hh |-> Hh(k.cycle),
     leadtime |-> LeadHours(k.lead), var |-> VarStr(0),
     prefix |-> Prefix(cfg, k.source, k.var), lead |-> LeadHours(k.lead),
     vday |-> Yyyymmdd(k.cycle + k.lead), vhh |-> Hh(k.cycle + k.lead), ext |-> ".stat"]

PathOf(k, cfg) ==
    CASE k.kind = "grid_grib" -> GridGribPath(k)
      [] k.kind = "grid_nc" -> GridNcPath(k)
      [] OTHER -> StatPath(k, cfg)

\* the keys a run under configuration cfg can request
StepKeys(cfg) ==
    {StepKey(kind, "", v, cy, l) :
        kind \in {"grid_grib", "grid_nc"}, v \in 1..NumVars, cy \in CycleTimes,
        l \in LeadTimes}
    \cup {StepKey("stat", src, v, cy, l) :
            src \in {"forecast"} \cup (IF cfg.compare THEN {"baseline"} ELSE {}),
            v \in 1..NumVars, cy \in CycleTimes, l \in LeadTimes}

\* a step is requested: its output path is derived from its key
RequestStep(k) ==
    /\ Len(pt.req) < 2
    /\ k \in StepKeys(pt.conf)
    /\ pt' = [pt EXCEPT !.req = Append(@, [key |-> k, path |-> PathOf(k, pt.conf)])]
    /\ UNCHANGED <<files, db, th, seenTrue, probedTrue, fx, gvars, ix, uvars>>

InitPaths ==
    /\ pt \in [conf : [bname : BaselineNames, fname : ForecastNames, compare : BOOLEAN],
                req : {<<>>}]
    /\ files = [p \in AllPaths |-> NoFile]
    /\ db = [p \in Paths |-> "none"]
    /\ th = [t \in Threads |-> IdleThread]
    /\ seenTrue = [p \in Paths |-> FALSE]
    /\ probedTrue = [p \in Paths |-> FALSE]
    /\ fx = IdleFetch
    /\ ix = IdleIndex
    /\ NoGraph
    /\ NoCalls

NextPaths == \E k \in StepKeys(pt.conf) : RequestStep(k)

SpecPaths == InitPaths /\ [][NextPaths]_vars

(***************************************************************************)
(* The readiness predicate when no backing store is configured: the        *)
(* filesystem check itself (workflow._proxy(path) is path.is_file when     *)
(* workflow.DATABASE is None).                                             *)
(***************************************************************************)
\* what the predicate returns for path p on filesystem fs
PlainResult_Remembered(fs, p) == IsFile(fs, p) \/ seenTrue[p]

PlainResult(fs, p) == IsFile(fs, p)

\* one call of the predicate: path.is_file()
PlainIsFile(t, p) ==
    /\ th[t].pc = "idle"
    /\ LET e == PlainResult(files, p)
       IN  /\ th' = [th EXCEPT ![t] = [IdleThread EXCEPT !.pc = "ret", !.path = p,
                                                         !.after = seenTrue[p],
                                                         !.exists = e, !.probed = TRUE,
                                                         !.probeVal = IsFile(files, p)]]
           /\ probedTrue' = [probedTrue EXCEPT ![p] = @ \/ IsFile(files, p)]
    /\ UNCHANGED <<files, db, seenTrue, fx, gvars, ix, pt, uvars>>

\* no store exists
InitProxyPlain ==
    /\ InitProxy
    /\ db = [p \in Paths |-> "none"]

NextProxyPlain ==
    \/ \E t \in Threads, p \in Paths : PlainIsFile(t, p)
    \/ \E t \in Threads : ProxyReturn(t)
    \/ \E p \in Paths : ExternalCreate(p)
    \/ \E p \in Paths : ExternalDelete(p)

SpecProxyPlain == InitProxyPlain /\ [][NextProxyPlain]_vars

(***************************************************************************)
(* util.expand (and its twin times._enumerate): the times from start to    *)
(* stop, step apart. Times and steps are whole numbers of a time unit.     *)
(***************************************************************************)
Times == 0..MaxTime
Steps == -1..MaxStep

\* the other Inits leave every subsystem but their own at rest
Elsewhere ==
    /\ files = [p \in AllPaths |-> NoFile]
    /\ db = [p \in Paths |-> "none"]
    /\ th = [t \in Threads |-> IdleThread]
    /\ seenTrue = [p \in Paths |-> FALSE]
    /\ probedTrue = [p \in Paths |-> FALSE]
    /\ fx = IdleFetch
    /\ ix = IdleIndex
    /\ pt = NoPaths
    /\ NoGraph

svars == <<files, db, th, seenTrue, probedTrue, fx, gvars, ix, pt>>

Last(xs) == xs[Len(xs)]

\* if stop < start: raise WXVXError("Stop time %s precedes start time %s" ...)
ExpandRaises_Equal(start, stop) == stop <= start

ExpandRaises(start, stop) == stop < start

\* the test of the arguments, then xs = [start]
ExpandCheck ==
    /\ ex.pc = "check"
    /\ IF ExpandRaises(ex.start, ex.stop)
         THEN ex' = [ex EXCEPT !.pc = "raised"]
         ELSE ex' = [ex EXCEPT !.pc = "loop", !.xs = <<ex.start>>]
    /\ UNCHANGED <<svars, tp, ml, rc, wf>>

\* while (x := xs[-1]) < stop: xs.append(x + step)
ExpandStep_Doubled ==
    /\ ex.pc = "loop"
    /\ Last(ex.xs) < ex.stop
    /\ Len(ex.xs) <= MaxTime
    /\ ex' = [ex EXCEPT !.xs = Append(@, Last(ex.xs) + 2 * ex.step)]
    /\ UNCHANGED <<svars, tp, ml, rc, wf>>

ExpandStep ==
    /\ ex.pc = "loop"
    /\ Last(ex.xs) < ex.stop
    /\ Len(ex.xs) <= MaxTime
    /\ ex' = [ex EXCEPT !.xs = Append(@, Last(ex.xs) + ex.step)]
    /\ UNCHANGED <<svars, tp, ml, rc, wf>>

\* return xs
ExpandReturn ==
    /\ ex.pc = "loop"
    /\ ~(Last(ex.xs) < ex.stop)
    /\ ex' = [ex EXCEPT !.pc = "returned"]
    /\ UNCHANGED <<svars, tp, ml, rc, wf>>

\* expand is called with any start, step and stop
InitExpand ==
    /\ ex \in [pc : {"check"}, start : Times, step : Steps, stop : Times, xs : {<<>>}]
    /\ tp = NoPair
    /\ ml = IdleMet
    /\ rc = IdleRender
    /\ wf = IdleWorkflow
    /\ Elsewhere

NextExpand ==
    \/ ExpandCheck
    \/ ExpandStep
    \/ ExpandReturn

SpecExpand == InitExpand /\ [][NextExpand]_vars

\* the interpreter keeps executing the call: a statement that can run does
SpecExpandFair == SpecExpand /\ WF_vars(NextExpand)

(***************************************************************************)
(* times.TimeCoords. A datetime or timedelta is a whole number of ticks,   *)
(* TicksPerSecond of them to the second (a datetime counts them from the   *)
(* epoch), so that times between two whole seconds exist as they do in     *)
(* Python.                                                                 *)
(***************************************************************************)
TicksPerHour == 3600 * TicksPerSecond

\* datetimes: whole hours plus a fraction of a second
Datetimes == {h * TicksPerHour + f : h \in 0..MaxHour, f \in 0..MaxTick}

\* lead times: an int (hours) or a timedelta
LeadArgs == [int : {TRUE}, n : 0..MaxHour] \cup
            [int : {FALSE}, n : {h * TicksPerHour + f : h \in 0..MaxHour, f \in 0..MaxTick}]

\* TimeCoords.__init__
TimeCoords(cycle, leadtime) ==
    LET lt == IF leadtime.int THEN leadtime.n * TicksPerHour ELSE leadtime.n
    IN  [cycle |-> cycle, leadtime |-> lt, validtime |-> cycle + lt]

\* datetime.timestamp(): seconds since the epoch, a float
\* int(): the whole seconds of it
IntTimestamp(dt) == dt \div TicksPerSecond

\* TimeCoords.__hash__
Hash(o) == IntTimestamp(o.validtime)

\* TimeCoords.__eq__
Eq(a, b) == Hash(a) = Hash(b)

\* TimeCoords.__lt__
Lt(a, b) == Hash(a) < Hash(b)

\* a == b, a < b, hash(a) and hash(b) are evaluated
CompareTimeCoords ==
    /\ tp.pc = "made"
    /\ tp' = [tp EXCEPT !.pc = "compared", !.eq = Eq(tp.a, tp.b), !.lt = Lt(tp.a, tp.b),
                         !.hasha = Hash(tp.a), !.hashb = Hash(tp.b)]
    /\ UNCHANGED <<svars, ex, ml, rc, wf>>

\* two TimeCoords objects have been constructed
InitTimes ==
    /\ \E ca, cb \in Datetimes, la, lb \in LeadArgs :
         tp = [NoPair EXCEPT !.pc = "made", !.a = TimeCoords(ca, la),
                             !.b = TimeCoords(cb, lb)]
    /\ ex = IdleExpand
    /\ ml = IdleMet
    /\ rc = IdleRender
    /\ wf = IdleWorkflow
    /\ Elsewhere

SpecTimes == InitTimes /\ [][CompareTimeCoords]_vars

(***************************************************************************)
(* variables.metlevel. A str is the sequence of its characters.            *)
(***************************************************************************)
LevelTypes == {"atmosphere", "heightAboveGround", "isobaricInhPa", "surface", "foo"}
Levels == {None} \cup {Some(h * 100 + n) : h \in 0..MaxHundreds, n \in 0..MaxUnits}

\* {"atmosphere": "L", "heightAboveGround": "Z", "isobaricInhPa": "P"}
MetPrefixes_Surface ==
    [t \in {"atmosphere", "heightAboveGround", "isobaricInhPa", "surface"} |->
        CASE t = "atmosphere" -> "L" [] t = "heightAboveGround" -> "Z"
          [] t = "isobaricInhPa" -> "P" [] OTHER -> "S"]

MetPrefixes ==
    [t \in {"atmosphere", "heightAboveGround", "isobaricInhPa"} |->
        CASE t = "atmosphere" -> "L" [] t = "heightAboveGround" -> "Z" [] OTHER -> "P"]

\* level or 0
LevelOrZero(level) == IF level = None \/ level = Some(0) THEN 0 ELSE level[1]

DigitChars == <<"0", "1", "2", "3", "4", "5", "6", "7", "8", "9">>

\* "%d" % n for n >= 0
RECURSIVE Decimal(_)
Decimal(n) ==
    IF n < 10 THEN <<DigitChars[n + 1]>>
    ELSE Append(Decimal(n \div 10), DigitChars[(n % 10) + 1])

\* "%03d" % n: zeros in front up to a width of three
ZeroPadded3(n) ==
    LET d == Decimal(n)
    IN  IF Len(d) >= 3 THEN d ELSE [i \in 1..(3 - Len(d)) |-> "0"] \o d

\* metlevel(level_type, level)
MetLevel ==
    /\ ml.pc = "call"
    /\ IF ml.level_type \in DOMAIN MetPrefixes
         THEN ml' = [ml EXCEPT !.pc = "returned",
                               !.result = <<MetPrefixes[ml.level_type]>>
                                          \o ZeroPadded3(LevelOrZero(ml.level))]
         ELSE ml' = [ml EXCEPT !.pc = "raised"]
    /\ UNCHANGED <<svars, ex, tp, rc, wf>>

\* metlevel is called with any level type and level
InitMet ==
    /\ ml \in [pc : {"call"}, level_type : LevelTypes, level : Levels, result : {<<>>}]
    /\ ex = IdleExpand
    /\ tp = NoPair
    /\ rc = IdleRender
    /\ wf = IdleWorkflow
    /\ Elsewhere

SpecMet == InitMet /\ [][MetLevel]_vars

(***************************************************************************)
(* metconf.render: the MET configuration text of a mapping. A dict is a    *)
(* function from its keys, a list a sequence, and a handler is named by    *)
(* the name of its function.                                               *)
(***************************************************************************)
\* the keys each handler's match statement has a case for
Recognized(h) ==
    CASE h = "_top" -> {"fcst", "obs", "model", "obtype", "output_prefix", "tmp_dir",
                        "mask", "nbrhd", "nc_pairs_flag", "output_flag", "regrid"}
      [] h = "_fcst_or_obs" -> {"field"}
      [] h = "_field_mapping_kvpairs" ->
            {"cat_thresh", "cnt_thresh", "level", "name", "set_attr_level"}
      [] h = "_mask" -> {"grid", "poly"}
      [] h = "_nbrhd" -> {"shape", "width"}
      [] h = "_output_flag" -> {"cnt", "cts", "nbrcnt"}
      [] h = "_regrid" -> {"method", "to_grid"}

\* _top: the keys rendered with _mapping, and the handler given to _collect
NestedHandler ==
    [k \in {"fcst", "obs", "mask", "nbrhd", "output_flag", "regrid"} |->
        CASE k \in {"fcst", "obs"} -> "_fcst_or_obs"
          [] k = "mask" -> "_mask"
          [] k = "nbrhd" -> "_nbrhd"
          [] k = "output_flag" -> "_output_flag"
          [] OTHER -> "_regrid"]

\* the keys rendered with _sequence, and those whose values go through _quoted
SequenceKeys == {"cat_thresh", "cnt_thresh", "level", "grid", "poly", "width"}
QuotedKeys == {"model", "obtype", "output_prefix", "tmp_dir", "name", "set_attr_level",
               "level", "grid", "poly"}

\* the keys of the model in the order sorted() gives them
KeyOrder == <<"bar", "cat_thresh", "cnt", "cnt_thresh", "cts", "fcst", "field", "foo",
              "grid", "level", "mask", "method", "model", "name", "nbrcnt", "nbrhd",
              "nc_pairs_flag", "obs", "obtype", "output_flag", "output_prefix", "poly",
              "regrid", "set_attr_level", "shape", "tmp_dir", "to_grid", "width", "zap">>
Sorted(S) == SelectSeq(KeyOrder, LAMBDA k : k \in S)

\* what a handler gives: the lines, or the key _fail raised for
Ok(lines) == [fail |-> None, lines |-> lines]

\* _fail: raise ValueError(f"Unsupported key: {k}")
Fail_Ignored(k) == Ok(<<>>)

Fail(k) == [fail |-> Some(k), lines |-> <<>>]

\* _indent: "  " * level + v
RECURSIVE Indent(_, _)
Indent(v, level) == IF level = 0 THEN v ELSE "  " \o Indent(v, level - 1)

Quoted(v) == "\"" \o v \o "\""

Kvpair(k, v, level) == <<Indent(k \o " = " \o v \o ";", level)>>

Mapping(k, v, level) == <<Indent(k \o " = {", level)>> \o v \o <<Indent("}", level)>>

\* ",\n".join(items).split("\n") for items of one line each
CommaJoined(items) ==
    IF items = <<>> THEN <<"">>
    ELSE [i \in 1..Len(items) |-> IF i < Len(items) THEN items[i] \o "," ELSE items[i]]

\* _sequence
Sequence(k, v, quoted, level) ==
    IF v # <<>>
    THEN <<Indent(k \o " = [", level)>>
         \o CommaJoined([i \in 1..Len(v) |->
                            Indent(IF quoted THEN Quoted(v[i]) ELSE v[i], level + 1)])
         \o <<Indent("];", level)>>
    ELSE <<Indent(k \o " = [];", level)>>

RECURSIVE CollectKeys(_, _, _, _)
RECURSIVE FieldMappings(_, _)

\* _collect: the handler applied to the items of d in sorted order
Collect(h, d, level) == CollectKeys(h, d, Sorted(DOMAIN d), level)

\* _field_sequence: a _field_mapping per entry, joined with ",\n"
FieldSequence(k, v, level) ==
    LET r == FieldMappings(v, level + 1)
    IN  IF r.fail # None THEN r
        ELSE Ok(<<Indent(k \o " = [", level)>>
                \o (IF r.lines = <<>> THEN <<"">> ELSE r.lines)
                \o <<Indent("];", level)>>)

\* _top, _fcst_or_obs, _field_mapping_kvpairs, _mask, _nbrhd, _output_flag,
\* _regrid: the case of key k, or _fail(k)
Handle(h, k, v, level) ==
    IF k \notin Recognized(h) THEN Fail(k)
    ELSE IF h = "_top" /\ k \in DOMAIN NestedHandler
    THEN LET r == Collect(NestedHandler[k], v, level + 1)
         IN  IF r.fail # None THEN r ELSE Ok(Mapping(k, r.lines, level))
    ELSE IF h = "_fcst_or_obs" THEN FieldSequence(k, v, level)
    ELSE IF k \in SequenceKeys THEN Ok(Sequence(k, v, k \in QuotedKeys, level))
    ELSE Ok(Kvpair(k, IF k \in QuotedKeys THEN Quoted(v) ELSE v, level))

CollectKeys(h, d, ks, level) ==
    IF ks = <<>> THEN Ok(<<>>)
    ELSE LET r == Handle(h, Head(ks), d[Head(ks)], level)
         IN  IF r.fail # None THEN r
             ELSE LET rest == CollectKeys(h, d, Tail(ks), level)
                  IN  IF rest.fail # None THEN rest ELSE Ok(r.lines \o rest.lines)

\* [_field_mapping(d, level) for d in v], each "{", its pairs and "}"
FieldMappings(v, level) ==
    IF v = <<>> THEN Ok(<<>>)
    ELSE LET r == Collect("_field_mapping_kvpairs", Head(v), level + 1)
         IN  IF r.fail # None THEN r
             ELSE LET rest == FieldMappings(Tail(v), level)
                  IN  IF rest.fail # None THEN rest
                      ELSE Ok(<<Indent("{", level)>> \o r.lines
                              \o <<Indent(IF Tail(v) = <<>> THEN "}" ELSE "},", level)>>
                              \o rest.lines)

\* "\n".join(lines)
RECURSIVE JoinLines(_)
JoinLines(lines) ==
    IF lines = <<>> THEN ""
    ELSE IF Len(lines) = 1 THEN lines[1]
    ELSE lines[1] \o "\n" \o JoinLines(Tail(lines))

\* render, _collect(_top, config, 0): the next item of the configuration
RenderKey ==
    /\ rc.pc = "collect"
    /\ rc.todo # <<>>
    /\ LET k == Head(rc.todo)
           r == Handle("_top", k, rc.config[k], 0)
       IN  IF r.fail # None
           THEN rc' = [rc EXCEPT !.pc = "raised", !.error = r.fail, !.lines = <<>>]
           ELSE rc' = [rc EXCEPT !.todo = Tail(@), !.lines = @ \o r.lines]
    /\ UNCHANGED <<svars, ex, tp, ml, wf>>

\* render: return "\n".join(...)
RenderJoin ==
    /\ rc.pc = "collect"
    /\ rc.todo = <<>>
    /\ rc' = [rc EXCEPT !.pc = "returned", !.text = Some(JoinLines(rc.lines))]
    /\ UNCHANGED <<svars, ex, tp, ml, wf>>

\* the dicts with keys among ks, every value of the type its key's handler takes
DictsOver(ks) ==
    {[k \in S |-> IF k \in SequenceKeys THEN <<"v">> ELSE "v"] : S \in SUBSET ks}

FieldLists == UNION {[1..n -> DictsOver({"name", "bar"})] : n \in 0..MaxFields}

\* the values the model gives each top-level key: nested mappings with and
\* without a key their handler does not know
ValuesOf(k) ==
    CASE k = "fcst" ->
            DictsOver({"foo"})
            \cup {[j \in {"field"} |-> l] : l \in FieldLists}
            \cup {[j \in {"field", "foo"} |-> IF j = "field" THEN l ELSE "v"] :
                    l \in FieldLists}
      [] k = "mask" -> DictsOver({"poly", "foo"}) \ {<<>>}
      [] k = "nbrhd" -> DictsOver({"shape", "foo"}) \ {<<>>}
      [] k = "output_flag" -> DictsOver({"cnt", "foo"}) \ {<<>>}
      [] k = "regrid" -> DictsOver({"method", "foo"}) \ {<<>>}
      [] OTHER -> {"v"}

ConfigKeys == {"fcst", "mask", "model", "nbrhd", "output_flag", "regrid", "zap"}

\* the configurations with keys among ks
RECURSIVE ConfigsOver(_)
ConfigsOver(ks) ==
    IF ks = {} THEN DictsOver({})
    ELSE LET k == CHOOSE j \in ks : TRUE
             rest == ConfigsOver(ks \ {k})
         IN  rest \cup {[j \in DOMAIN c \cup {k} |-> IF j = k THEN v ELSE c[j]] :
                          c \in rest, v \in ValuesOf(k)}

Configs == ConfigsOver(ConfigKeys)

\* render is called with a configuration mapping
InitRender ==
    /\ \E c \in Configs :
         rc = [IdleRender EXCEPT !.pc = "collect", !.config = c,
                                 !.todo = Sorted(DOMAIN c)]
    /\ ex = IdleExpand
    /\ tp = NoPair
    /\ ml = IdleMet
    /\ wf = IdleWorkflow
    /\ Elsewhere

NextRender ==
    \/ RenderKey
    \/ RenderJoin

SpecRender == InitRender /\ [][NextRender]_vars

(***************************************************************************)
(* The requirements of grids and of the statistics steps                   *)
(***************************************************************************)
\* c.variables in file order: each entry has a name, a level type and, for
\* some level types, a list of levels; the identities are distinct, so the
\* dict _vxvars builds has one item per (variable, level) pair
VariableTable ==
    <<[varname |-> "REFC", name |-> "refc", level_type |-> "atmosphere", levels |-> None],
      [varname |-> "SPFH", name |-> "q", level_type |-> "isobaricInhPa",
       levels |-> Some(<<900, 1000>>)],
      [varname |-> "T2M", name |-> "2t", level_type |-> "heightAboveGround",
       levels |-> Some(<<2>>)]>>

\* attrs.get("levels", [None])
LevelsOf(attrs) ==
    IF attrs.levels = None THEN <<None>>
    ELSE [i \in 1..Len(attrs.levels[1]) |-> Some(attrs.levels[1][i])]

\* Var.__init__
Var(name, level_type, level) == [name |-> name, level_type |-> level_type, level |-> level]

\* _vxvars: {Var(attrs["name"], attrs["level_type"], level): varname for
\* varname, attrs in c.variables.items() for level in attrs.get("levels", [None])}
RECURSIVE VxVarsOf(_)
VxVarsOf(variables) ==
    IF variables = <<>> THEN <<>>
    ELSE LET attrs == Head(variables)
             levels == LevelsOf(attrs)
         IN  [i \in 1..Len(levels) |->
                [var |-> Var(attrs.name, attrs.level_type, levels[i]),
                 varname |-> attrs.varname]]
             \o VxVarsOf(Tail(variables))

VxVars(c) == VxVarsOf(SubSeq(VariableTable, 1, c.nvars))

\* itertools.product(xs, ys): the pairs, the first component varying slowest
Product(xs, ys) ==
    [k \in 1..(Len(xs) * Len(ys)) |->
        <<xs[((k - 1) \div Len(ys)) + 1], ys[((k - 1) % Len(ys)) + 1]>>]

\* c.cycles.values and c.leadtimes.values: hourly from zero
CyclesOf(c) == [i \in 1..c.ncycles |-> (i - 1) * TicksPerHour]
LeadtimesOf(c) == [i \in 1..(c.maxlead + 1) |-> [int |-> FALSE, n |-> (i - 1) * TicksPerHour]]

\* validtimes(cycles, leadtimes): a TimeCoords per pair of the product
Validtimes(cycles, leadtimes) ==
    LET pairs == Product(cycles, leadtimes)
    IN  [k \in 1..Len(pairs) |-> TimeCoords(pairs[k][1], pairs[k][2])]

\* the nodes _grid_nc(c, varname, tc, var) and _grid_grib(c, tc, var) give
GridNcNode(varname, tc, var) ==
    [kind |-> "grid_nc", varname |-> varname, tc |-> tc, var |-> var]
GridGribNode(tc, var) == [kind |-> "grid_grib", tc |-> tc, var |-> var]

\* no call has been made on configuration c
ReadyWorkflow(c) ==
    [pc |-> "ready", op |-> "", c |-> c, baseline |-> FALSE, forecast |-> FALSE,
     varname |-> "", level |-> None, cycle |-> None, todo |-> <<>>, reqs |-> <<>>]

\* grids(c, baseline, forecast) is called: reqs = [] and the two loops begin
GridsCall(baseline, forecast) ==
    /\ wf.pc = "ready"
    /\ wf' = [wf EXCEPT !.pc = "grids", !.op = "grids", !.baseline = baseline,
                         !.forecast = forecast,
                         !.todo = Product(VxVars(wf.c),
                                          Validtimes(CyclesOf(wf.c), LeadtimesOf(wf.c)))]
    /\ UNCHANGED <<svars, ex, tp, ml, rc>>

\* the body of the loops for one variable and one tc
GridsStep_NoCompare ==
    /\ wf.pc = "grids"
    /\ wf.todo # <<>>
    /\ LET var == Head(wf.todo)[1].var
           varname == Head(wf.todo)[1].varname
           tc == Head(wf.todo)[2]
       IN  wf' = [wf EXCEPT
                    !.todo = Tail(@),
                    !.reqs = @ \o (IF wf.forecast THEN <<GridNcNode(varname, tc, var)>>
                                   ELSE <<>>)
                              \o (IF wf.baseline
                                  THEN <<GridGribNode(
                                           TimeCoords(tc.validtime, [int |-> TRUE, n |-> 0]),
                                           var)>>
                                  ELSE <<>>)]
    /\ UNCHANGED <<svars, ex, tp, ml, rc>>

GridsStep ==
    /\ wf.pc = "grids"
    /\ wf.todo # <<>>
    /\ LET var == Head(wf.todo)[1].var
           varname == Head(wf.todo)[1].varname
           tc == Head(wf.todo)[2]
       IN  wf' = [wf EXCEPT
                    !.todo = Tail(@),
                    !.reqs = @ \o (IF wf.forecast THEN <<GridNcNode(varname, tc, var)>>
                                   ELSE <<>>)
                              \o (IF wf.baseline
                                  THEN <<GridGribNode(
                                           TimeCoords(tc.validtime, [int |-> TRUE, n |-> 0]),
                                           var)>>
                                       \o (IF wf.c.compare THEN <<GridGribNode(tc, var)>>
                                           ELSE <<>>)
                                  ELSE <<>>)]
    /\ UNCHANGED <<svars, ex, tp, ml, rc>>

\* yield reqs
GridsYield ==
    /\ wf.pc = "grids"
    /\ wf.todo = <<>>
    /\ wf' = [wf EXCEPT !.pc = "done"]
    /\ UNCHANGED <<svars, ex, tp, ml, rc>>

\* sorted(args): the tuples differ in their tc only, which TimeCoords.__lt__
\* orders; the sort is stable
RECURSIVE SortedArgs(_)
SortedArgs(args) ==
    IF args = <<>> THEN <<>>
    ELSE LET x == args[Len(args)]
             front == SortedArgs(SubSeq(args, 1, Len(args) - 1))
             k == Cardinality({i \in 1..Len(front) : ~Lt(x.tc, front[i].tc)})
         IN  SubSeq(front, 1, k) \o <<x>> \o SubSeq(front, k + 1, Len(front))

\* _statargs(c, varname, level, source, cycle)
StatArgs(c, varname, level, source, cycle) ==
    LET cycles == IF cycle # None THEN <<cycle[1]>> ELSE CyclesOf(c)
        items == Product(VxVars(c), Validtimes(cycles, LeadtimesOf(c)))
        chosen == SelectSeq(items, LAMBDA it : it[1].varname = varname
                                               /\ it[1].var.level = level)
    IN  SortedArgs([k \in 1..Len(chosen) |->
                      [kind |-> "stat", varname |-> chosen[k][1].varname,
                       tc |-> chosen[k][2], var |-> chosen[k][1].var,
                       prefix |-> Prefix(c, source, chosen[k][1].var),
                       source |-> source]])

\* _statreqs(c, varname, level, cycle)
StatreqsList_Always(c, varname, level, cycle) ==
    StatArgs(c, varname, level, "forecast", cycle)
    \o StatArgs(c, varname, level, "baseline", cycle)

StatreqsList(c, varname, level, cycle) ==
    StatArgs(c, varname, level, "forecast", cycle)
    \o (IF c.compare THEN StatArgs(c, varname, level, "baseline", cycle) ELSE <<>>)

\* _statreqs is called and returns its list
Statreqs(varname, level, cycle) ==
    /\ wf.pc = "ready"
    /\ wf' = [wf EXCEPT !.pc = "done", !.op = "_statreqs", !.varname = varname,
                         !.level = level, !.cycle = cycle,
                         !.reqs = StatreqsList(wf.c, varname, level, cycle)]
    /\ UNCHANGED <<svars, ex, tp, ml, rc>>

\* the arguments the model calls _statreqs with
StatVarnames == {VariableTable[i].varname : i \in 1..Len(VariableTable)}
StatLevels == {None} \cup {Some(l) : l \in {2, 900, 1000}}
StatCycles == {None} \cup {Some(h * TicksPerHour) : h \in 0..MaxHour}

\* a configuration has been loaded
InitReqs ==
    /\ \E c \in [nvars : 1..NumVars, ncycles : 1..(MaxHour + 1), maxlead : 0..MaxLead,
                  compare : BOOLEAN, bname : BaselineNames, fname : ForecastNames] :
         wf = ReadyWorkflow(c)
    /\ ex = IdleExpand
    /\ tp = NoPair
    /\ ml = IdleMet
    /\ rc = IdleRender
    /\ Elsewhere

NextReqs ==
    \/ \E baseline, forecast \in BOOLEAN : GridsCall(baseline, forecast)
    \/ GridsStep
    \/ GridsYield
    \/ \E varname \in StatVarnames, level \in StatLevels, cycle \in StatCycles :
         Statreqs(varname, level, cycle)

SpecReqs == InitReqs /\ [][NextReqs]_vars

(***************************************************************************)
(* _grib_index_data: which records of an index become entries              *)
(***************************************************************************)
\* the string of a list of characters
RECURSIVE CharsToString(_)
CharsToString(cs) == IF cs = <<>> THEN "" ELSE Head(cs) \o CharsToString(Tail(cs))

\* the level descriptions of index records: a level string has one of the
\* forms the patterns of _levinfo know, or another one; a number is written
\* without or with a fraction ("900", "900.0")
Whole(n) == <<n>>
Fraction(n) == <<n, ".0">>
LevStrs ==
    {[form |-> "entire atmosphere", num |-> None],
     [form |-> "mb", num |-> Whole(900)],
     [form |-> "mb", num |-> Fraction(900)],
     [form |-> "surface", num |-> None],
     [form |-> "cloud base", num |-> None]}

\* the provider names of index records
ProviderNames == {"REFC", "SPFH", "FOO"}

\* _levelstr2num: int(levelstr), or float(levelstr) when that fails
LevelStr2Num(num) == num

\* GFS._levinfo
Levinfo(levstr) ==
    CASE levstr.form = "entire atmosphere" -> <<"atmosphere", None>>
      [] levstr.form = "m above ground" -> <<"heightAboveGround", LevelStr2Num(levstr.num)>>
      [] levstr.form = "mb" -> <<"isobaricInhPa", LevelStr2Num(levstr.num)>>
      [] levstr.form = "surface" -> <<"surface", None>>
      [] OTHER -> <<"unknown", None>>

\* GFS._canonicalize: {...}.get((name, level_type), UNKNOWN)
Canonicalize_Misfiled(name, level_type) ==
    CASE name = "HGT" -> "gh"
      [] name = "REFC" -> "refc"
      [] name = "SPFH" /\ level_type = "atmosphere" -> "q"
      [] OTHER -> "unknown"

Canonicalize(name, level_type) ==
    CASE name = "HGT" /\ level_type = "isobaricInhPa" -> "gh"
      [] name = "REFC" /\ level_type = "atmosphere" -> "refc"
      [] name = "SPFH" /\ level_type = "isobaricInhPa" -> "q"
      [] name = "TMP" /\ level_type = "heightAboveGround" -> "2t"
      [] name = "TMP" /\ level_type = "isobaricInhPa" -> "t"
      [] name = "UGRD" /\ level_type = "isobaricInhPa" -> "u"
      [] name = "VGRD" /\ level_type = "isobaricInhPa" -> "v"
      [] name = "VVEL" /\ level_type = "isobaricInhPa" -> "w"
      [] OTHER -> "unknown"

\* GFS.__init__
GFS(name, levstr, firstbyte, lastbyte) ==
    LET info == Levinfo(levstr)
    IN  [name |-> Canonicalize(name, info[1]), level_type |-> info[1], level |-> info[2],
         firstbyte |-> firstbyte, lastbyte |-> LastByteOf(lastbyte)]

\* Var.__eq__: hash((name, level_type, level)) of both; a number with and
\* without a zero fraction has the same hash
SameVar(a, b) ==
    /\ a.name = b.name
    /\ a.level_type = b.level_type
    /\ (a.level = None) = (b.level = None)
    /\ a.level # None => a.level[1] = b.level[1]

\* f"{level:04}": zeros in front up to a width of four
Format04(level) ==
    LET digits == Decimal(level[1])
        text == IF Len(level) = 2 THEN digits \o <<".", "0">> ELSE digits
    IN  CharsToString(IF Len(text) >= 4 THEN text
                      ELSE [i \in 1..(4 - Len(text)) |-> "0"] \o text)

\* Var.__str__: "-".join(filter(None, [name, level_type, level]))
Str(var) ==
    var.name \o "-" \o var.level_type
    \o (IF var.level = None THEN "" ELSE "-" \o Format04(var.level))

\* one turn of the loop: the variable of this_record is built and, if it is
\* in vxvars, stored under its string
IndexEntry ==
    /\ wf.pc = "pair"
    /\ wf.pos < Len(wf.recs)
    /\ LET this_record == wf.recs[wf.pos]
           next_record == wf.recs[wf.pos + 1]
           baseline_var == GFS(this_record.name, this_record.levstr, this_record.off,
                               next_record.off - 1)
           vxvars == {VxVars(wf.c)[i].var : i \in 1..Len(VxVars(wf.c))}
       IN  wf' = [wf EXCEPT
                    !.idxdata = IF \E v \in vxvars : SameVar(baseline_var, v)
                                THEN [k \in DOMAIN @ \cup {Str(baseline_var)} |->
                                        IF k = Str(baseline_var) THEN baseline_var
                                        ELSE @[k]]
                                ELSE @,
                    !.pos = @ + 1]
    /\ UNCHANGED <<svars, ex, tp, ml, rc>>

\* the loop ends
IndexDone ==
    /\ wf.pc = "pair"
    /\ wf.pos = Len(wf.recs)
    /\ wf' = [wf EXCEPT !.pc = "done"]
    /\ UNCHANGED <<svars, ex, tp, ml, rc>>

\* the index file of a baseline has been read and split, the end marker
\* is appended; every record of the file is two bytes long
InitEntries ==
    /\ \E n \in 1..MaxLines, nvars \in 1..NumVars :
         \E names \in [1..n -> ProviderNames], levstrs \in [1..n -> LevStrs] :
            wf = [pc |-> "pair", c |-> [nvars |-> nvars],
                  recs |-> [i \in 1..(n + 1) |->
                              IF i <= n
                              THEN [off |-> 2 * (i - 1), name |-> names[i],
                                    levstr |-> levstrs[i]]
                              ELSE [off |-> -1, name |-> "", levstr |-> [form |-> "",
                                                                        num |-> None]]],
                  pos |-> 1, idxdata |-> <<>>]
    /\ ex = IdleExpand
    /\ tp = NoPair
    /\ ml = IdleMet
    /\ rc = IdleRender
    /\ Elsewhere

NextEntries ==
    \/ IndexEntry
    \/ IndexDone

SpecEntries == InitEntries /\ [][NextEntries]_vars

(***************************************************************************)
(* _grid_stat_config: the grid_stat configuration of a comparison          *)
(***************************************************************************)
\* VARMETA: per variable name, the fields _grid_stat_config reads
VarMetaOf(level_type, met_stats, cat_thresh, cnt_thresh, nbrhd_shape, nbrhd_width) ==
    [level_type |-> level_type, met_stats |-> met_stats, cat_thresh |-> cat_thresh,
     cnt_thresh |-> cnt_thresh, nbrhd_shape |-> nbrhd_shape, nbrhd_width |-> nbrhd_width]

VARMETA ==
    [name \in {"2t", "gh", "q", "refc", "t", "u", "v", "w"} |->
        CASE name = "2t" ->
                VarMetaOf("heightAboveGround", {"ME", "RMSE"}, None, None, None, None)
          [] name = "refc" ->
                VarMetaOf("atmosphere", {"FSS", "PODY"}, Some(<<">=20", ">=30", ">=40">>),
                          Some(<<">15">>), Some("CIRCLE"), Some(<<"3", "5", "11">>))
          [] OTHER -> VarMetaOf("isobaricInhPa", {"ME", "RMSE"}, None, None, None, None)]

\* util.LINETYPE
LINETYPE_Mctc ==
    [stat \in {"FSS", "ME", "PODY", "RMSE"} |->
        CASE stat = "FSS" -> "nbrcnt" [] stat = "PODY" -> "mctc" [] OTHER -> "cnt"]

LINETYPE ==
    [stat \in {"FSS", "ME", "PODY", "RMSE"} |->
        CASE stat = "FSS" -> "nbrcnt" [] stat = "PODY" -> "cts" [] OTHER -> "cnt"]

\* GFS.varname (HRRR inherits it): {...}.get(name, UNKNOWN)
BaselineVarname(name) ==
    CASE name = "2t" -> "TMP" [] name = "gh" -> "HGT" [] name = "q" -> "SPFH"
      [] name = "refc" -> "REFC" [] name = "t" -> "TMP" [] name = "u" -> "UGRD"
      [] name = "v" -> "VGRD" [] name = "w" -> "VVEL" [] OTHER -> "unknown"

\* the level types a variable of the configuration may declare, and the
\* levels it then has: a list for heights and pressures, none otherwise
DeclaredLevelTypes == {"atmosphere", "heightAboveGround", "isobaricInhPa", "surface"}
DeclaredLevels(level_type) ==
    IF level_type \in {"atmosphere", "surface"} THEN {None} ELSE {Some(2), Some(1000)}

\* the config dict of _grid_stat_config, given level_obs
GridStatConfig(c, varname, rundir, var, prefix, source, polyfile, level_obs) ==
    LET obsname == BaselineVarname(var.name)
        level_fcst == IF source = "baseline" THEN level_obs ELSE "(0,0,*,*)"
        name_fcst == IF source = "baseline" THEN obsname ELSE varname
        model == IF source = "baseline" THEN c.bname ELSE c.fname
        meta == VARMETA[var.name]
        thresh == (IF meta.cat_thresh # None THEN {"cat_thresh"} ELSE {})
                  \cup (IF meta.cnt_thresh # None THEN {"cnt_thresh"} ELSE {})
        field_fcst ==
            [k \in {"level", "name", "set_attr_level"} \cup thresh |->
                CASE k = "level" -> <<level_fcst>>
                  [] k = "name" -> name_fcst
                  [] k = "set_attr_level" -> level_obs
                  [] k = "cat_thresh" -> meta.cat_thresh[1]
                  [] OTHER -> meta.cnt_thresh[1]]
        field_obs ==
            [k \in {"level", "name"} \cup thresh |->
                CASE k = "level" -> <<level_obs>>
                  [] k = "name" -> obsname
                  [] k = "cat_thresh" -> meta.cat_thresh[1]
                  [] OTHER -> meta.cnt_thresh[1]]
        nbrhd ==
            [k \in (IF meta.nbrhd_shape # None THEN {"shape"} ELSE {})
                   \cup (IF meta.nbrhd_width # None THEN {"width"} ELSE {}) |->
                IF k = "shape" THEN meta.nbrhd_shape[1] ELSE meta.nbrhd_width[1]]
    IN  [k \in {"fcst", "mask", "model", "nc_pairs_flag", "obs", "obtype", "output_flag",
                "output_prefix", "regrid", "tmp_dir"}
               \cup (IF DOMAIN nbrhd # {} THEN {"nbrhd"} ELSE {}) |->
            CASE k = "fcst" -> [j \in {"field"} |-> <<field_fcst>>]
              [] k = "mask" -> [j \in {"grid", "poly"} |->
                                  IF j = "grid"
                                  THEN (IF polyfile THEN <<>> ELSE <<"FULL">>)
                                  ELSE (IF polyfile THEN <<"mask.poly">> ELSE <<>>)]
              [] k = "model" -> model
              [] k = "nc_pairs_flag" -> "FALSE"
              [] k = "obs" -> [j \in {"field"} |-> <<field_obs>>]
              [] k = "obtype" -> c.bname
              [] k = "output_flag" -> [j \in {LINETYPE[x] : x \in meta.met_stats} |-> "BOTH"]
              [] k = "output_prefix" -> prefix
              [] k = "regrid" -> [j \in {"to_grid"} |-> "FCST"]
              [] k = "tmp_dir" -> rundir
              [] OTHER -> nbrhd]

\* _grid_stat_config begins: level_obs = metlevel(var.level_type, var.level)
ConfigMetLevel ==
    /\ wf.pc = "call"
    /\ ml = IdleMet
    /\ ml' = [IdleMet EXCEPT !.pc = "call", !.level_type = wf.var.level_type,
                             !.level = wf.var.level]
    /\ wf' = [wf EXCEPT !.pc = "metlevel"]
    /\ UNCHANGED <<svars, ex, tp, rc>>

\* metlevel raised: the error leaves _grid_stat_config and the body of _stat
ConfigRaised ==
    /\ wf.pc = "metlevel"
    /\ ml.pc = "raised"
    /\ wf' = [wf EXCEPT !.pc = "raised"]
    /\ UNCHANGED <<svars, ex, tp, ml, rc>>

\* metlevel returned: config is built and handed to render
ConfigRender ==
    /\ wf.pc = "metlevel"
    /\ ml.pc = "returned"
    /\ LET config == GridStatConfig(wf.c, wf.varname, wf.rundir, wf.var, wf.prefix,
                                    wf.source, wf.polyfile, CharsToString(ml.result))
       IN  rc' = [IdleRender EXCEPT !.pc = "collect", !.config = config,
                                    !.todo = Sorted(DOMAIN config)]
    /\ wf' = [wf EXCEPT !.pc = "render"]
    /\ UNCHANGED <<svars, ex, tp, ml>>

\* render returned: tmp.write_text("%s\n" % render(config)) and the rename
ConfigWrite ==
    /\ wf.pc = "render"
    /\ rc.pc = "returned"
    /\ wf' = [wf EXCEPT !.pc = "written"]
    /\ UNCHANGED <<svars, ex, tp, ml, rc>>

\* the body of _stat calls _grid_stat_config for a variable of the
\* configuration, a source and with or without a mask
InitStatConfig ==
    /\ \E name \in DOMAIN VARMETA, level_type \in DeclaredLevelTypes, source \in {"baseline", "forecast"},
          polyfile \in BOOLEAN, bname \in BaselineNames :
         \E level \in DeclaredLevels(level_type) :
            wf = [pc |-> "call", c |-> [bname |-> bname, fname |-> "Forecast"],
                  varname |-> "VAR", rundir |-> "rundir",
                  var |-> Var(name, level_type, level), prefix |-> "prefix",
                  source |-> source, polyfile |-> polyfile]
    /\ ex = IdleExpand
    /\ tp = NoPair
    /\ ml = IdleMet
    /\ rc = IdleRender
    /\ Elsewhere

NextStatConfig ==
    \/ ConfigMetLevel
    \/ MetLevel
    \/ ConfigRaised
    \/ ConfigRender
    \/ RenderKey
    \/ RenderJoin
    \/ ConfigWrite

SpecStatConfig == InitStatConfig /\ [][NextStatConfig]_vars

(***************************************************************************)
(* Claims about the asset cache                                            *)
(***************************************************************************)

\* C5: a call that finds no remembered value for its key returns, and records
\* in the store, whether the file exists at that moment.
C5_FirstCallReportsFile ==
    \A t \in Threads :
        (th[t].pc = "ret" /\ th[t].missing) =>
            /\ th[t].exists = th[t].fsAtMiss
            /\ db[th[t].path] = StoreOf(th[t].fsAtMiss)

\* C6: once a call has returned True for a path, every later call for that
\* path returns True, whatever has happened to the file since.
C6_NeverDowngrades ==
    \A t \in Threads : (th[t].pc = "ret" /\ th[t].after) => th[t].exists

C6_Witness ==
    \E t \in Threads :
        /\ th[t].pc = "ret" /\ th[t].after /\ th[t].exists
        /\ ~IsFile(files, th[t].path)

\* C7: a call that reads a remembered false probes the filesystem and returns
\* what the probe saw (false while the file is absent); when the probe sees
\* the file the stored value is "1" at the return, and a stored "1" stays.
C7_FalseIsRechecked ==
    \A t \in Threads :
        /\ (th[t].pc = "ret" /\ ~th[t].missing /\ th[t].val = "0") =>
               /\ th[t].probed
               /\ th[t].exists = th[t].probeVal
               /\ th[t].exists => db[th[t].path] = "1"
        /\ (th[t].pc = "ret" /\ th[t].missing /\ ~th[t].fsAtMiss) => ~th[t].exists

C7_FalseNeverTrusted ==
    /\ []C7_FalseIsRechecked
    /\ [][\A p \in Paths : db[p] = "1" => db'[p] = "1"]_vars

C7_Witness ==
    \E t \in Threads :
        /\ th[t].pc = "ret" /\ th[t].val = "0" /\ th[t].probed
        /\ th[t].exists /\ db[th[t].path] = "1"

\* C8: whatever the interleaving of the threads' reads, probes and writes,
\* a call returns True only if the file existed at some probe of its path,
\* and a call that read a remembered value returns False only after a probe
\* of its own that found no file.
C8_NoFalseReadiness ==
    \A t \in Threads :
        /\ (th[t].pc = "ret" /\ th[t].exists) => probedTrue[th[t].path]
        /\ (th[t].pc = "ret" /\ ~th[t].exists /\ ~th[t].missing) =>
               (th[t].probed /\ ~th[t].probeVal)

C8_Witness ==
    \E t, u \in Threads :
        /\ t # u /\ th[t].path = th[u].path
        /\ th[t].pc = "ret" /\ th[t].exists /\ th[t].probed
        /\ th[u].pc = "store_missing"

C29_StoredTrueStays ==
    [][\A p \in Paths : db[p] = "1" => db'[p] = "1"]_vars

\* C37: a step of a proxy() call changes no file, and changes the store
\* only at the key of the path the call is bound to, where it stores a
\* boolean ("0" or "1"); the value of every other key stays as it was.
C37_OnlyOwnKey ==
    [][th' # th =>
          /\ files' = files
          /\ \A p \in Paths :
                db'[p] # db[p] =>
                    /\ db'[p] \in {"0", "1"}
                    /\ \E t \in Threads :
                          /\ th'[t] # th[t]
                          /\ th[t].path = p
                          /\ th[t].pc \in {"store_missing", "store_true"}]_vars

C37_Witness ==
    \E t \in Threads :
        /\ th[t].pc = "ret" /\ th[t].probed /\ th[t].exists
        /\ th[t].path = "a" /\ db["a"] = "1" /\ db["b"] = "0"
        /\ IsFile(files, "b")

(***************************************************************************)
(* Claims about fetch                                                      *)
(***************************************************************************)

\* C9: fetch returns True exactly when the status is 206 for a request whose
\* headers contain Range and 200 otherwise; the destination then holds the
\* whole body; a response with any other status never makes fetch raise.
C9_FetchResult ==
    LET want == IF fx.given /\ "Range" \in fx.names THEN 206 ELSE 200
    IN  /\ fx.pc = "done" =>
            /\ fx.result <=> (fx.status = want)
            /\ fx.result => files[fx.path] = FileOf(fx.body)
        /\ (fx.pc = "raised" /\ fx.responded) => fx.status = want

C9_Witness ==
    /\ fx.pc = "done" /\ fx.result /\ "Range" \in fx.names /\ fx.status = 206
    /\ Len(fx.body) >= 2 /\ files[fx.path] = FileOf(fx.body)

\* C10: when fetch returns False the destination is exactly what it was
\* before the call.
C10_FailureLeavesDestination ==
    (fx.pc = "done" /\ ~fx.result) => files[fx.path] = fx.before

C10_Witness ==
    /\ fx.pc = "done" /\ ~fx.result /\ "Range" \in fx.names /\ fx.status = 200
    /\ fx.body # <<>> /\ ~IsFile(files, fx.path)

\* C11: while fetch writes through atomic, the destination is in every state
\* what it was before the call or the complete body, never a part of it; it
\* changes only by the final rename, which leaves the whole body there and no
\* temporary file.
C11_DestinationWhole ==
    \A p \in FetchPaths :
        /\ (fx.pc \in {"get", "check", "write", "raised"} /\ fx.path = p) =>
               files[p] = fx.before
        /\ (fx.pc = "done" /\ fx.path = p) =>
               files[p] = IF fx.result THEN FileOf(fx.body) ELSE fx.before
        /\ (fx.pc = "done" /\ fx.path = p /\ fx.result) => ~IsFile(files, Tmp(p))

C11_NoPartialDestination ==
    /\ []C11_DestinationWhole
    /\ [][\A p \in FetchPaths :
            files'[p] # files[p] =>
                /\ fx.pc = "write" /\ fx.sent = Len(fx.body)
                /\ files[Tmp(p)] = FileOf(fx.body)
                /\ files'[p] = FileOf(fx.body)
                /\ ~IsFile(files', Tmp(p))]_vars

C11_Witness ==
    /\ fx.pc = "write" /\ Len(fx.body) = 2 /\ fx.sent = 1
    /\ files[Tmp(fx.path)] = FileOf(<<fx.body[1]>>)
    /\ ~IsFile(files, fx.path)

\* C12: fetch never raises: a timeout or a connection failure makes it
\* return False as a non-matching status does.
C12_FetchNeverRaises ==
    fx.pc # "raised"

\* C38: when the body of the atomic block raises, the call ends raising, the
\* rename is not performed and the destination is what it was before the
\* call (absent if it was absent), whatever part of the body had reached the
\* temporary file.
C38_RaiseLeavesDestination ==
    /\ [](\A p \in FetchPaths :
            (fx.pc = "raised" /\ fx.responded /\ fx.path = p) =>
                /\ files[p] = fx.before
                /\ IsFile(files, p) = fx.before.exists)
    /\ [][(fx.pc = "write" /\ fx'.pc # "write") =>
            IF fx.sent < Len(fx.body)
            THEN fx'.pc = "raised" /\ files'[fx.path] = files[fx.path]
            ELSE fx'.pc = "done"]_vars

C38_Witness ==
    /\ fx.pc = "raised" /\ fx.responded /\ fx.sent = 1 /\ Len(fx.body) = 2
    /\ files[Tmp(fx.path)] = FileOf(<<fx.body[1]>>)
    /\ ~IsFile(files, fx.path)

(***************************************************************************)
(* Claims about the task graph                                             *)
(***************************************************************************)

\* what a body works on: tasks that differ only in who asked for them
\* produce the same thing
ArtifactOf(n) ==
    IF n.kind \in {"idx_data", "idx_file", "fcst_ds", "existing", "polyfile"}
    THEN [n EXCEPT !.var = 0, !.src = ""] ELSE n

\* the requirements the step catalogue gives each step
Needs(n, c) ==
    CASE n.kind = "grid_grib" -> {IdxData(n.cycle, n.lead)}
      [] n.kind = "idx_data" -> {IdxFile(n.cycle, n.lead)}
      [] n.kind = "grid_nc" -> {FcstDs(n.cycle, n.lead)}
      [] n.kind = "fcst_ds" -> {Existing(n.cycle, n.lead)}
      [] n.kind = "stat" ->
            {GridGrib(n.cycle + n.lead, 0, n.var)}
            \cup (IF n.src = "baseline"
                  THEN {GridGrib(n.cycle, n.lead, n.var), GridNc(n.cycle, n.lead, n.var)}
                  ELSE {GridNc(n.cycle, n.lead, n.var)})
            \cup (IF c.mask THEN {PolyFile} ELSE {})
      [] n.kind = "plot" ->
            {Stat("forecast", n.var, n.cycle, l) : l \in 0..c.maxlead}
            \cup (IF c.compare
                  THEN {Stat("baseline", n.var, n.cycle, l) : l \in 0..c.maxlead}
                  ELSE {})
      [] OTHER -> {}

RunOver ==
    /\ phase = "exec"
    /\ \A n \in Tasks : st[n] \notin {"DEPENDENCIES_PENDING", "RUNNING"}

\* C1: in a run no body starts twice, and no two tasks that stand for the
\* same artifact (the index data of one cycle and lead time, whichever
\* variable's baseline field asked for it) both have their body run.
C1_BodyAtMostOnce ==
    phase = "exec" =>
        \A n \in Tasks :
            /\ runs[n] <= 1
            /\ runs[n] = 1 =>
                 \A m \in Tasks :
                    (m # n /\ runs[m] >= 1) => ArtifactOf(m) # ArtifactOf(n)

C1_Witness ==
    /\ phase = "exec" /\ conf.nvars >= 2 /\ conf.compare /\ conf.root = "stats"
    /\ runs[IdxData(0, 0)] = 1
    /\ \A v \in VarsOf(conf) :
         /\ runs[GridGrib(0, 0, v)] = 1
         /\ runs[Stat("forecast", v, 0, 0)] = 1
         /\ runs[Stat("baseline", v, 0, 0)] = 1

\* C2: a body starts only in a state where every requirement of its step is
\* ready: the index data for a baseline field, the open dataset for a
\* forecast field, the grids (and the poly file under a mask) for a
\* comparison, every comparison of the cycle for a plot.
C2_StartsAfterRequirements ==
    [][\A n \in Tasks :
          (st[n] # "RUNNING" /\ st'[n] = "RUNNING") =>
              \A d \in Needs(n, conf) : d \in Tasks /\ st[d] = "READY"]_vars

C2_Witness ==
    /\ phase = "exec" /\ conf.compare /\ conf.mask /\ conf.maxlead >= 1
    /\ \E n \in Tasks :
         /\ n.kind = "plot" /\ st[n] = "RUNNING"
         /\ \A d \in Needs(n, conf) : runs[d] = 1 /\ n.var = d.var

\* C3: a task one of whose requirements ended not ready never has its body
\* run and ends skipped, not failed; a forecast dataset whose source file is
\* missing is never opened; when the run is over every reached task whose
\* requirements are all ready and that has a body has had it run (or was
\* ready before), and is ready if its file is there and its body did not
\* raise.
C3_MissingUpstreamPrunes ==
    phase = "exec" =>
        \A n \in Tasks :
            /\ (\E d \in Needs(n, conf) : d \in Tasks /\ st[d] \in NotReadyEnd) =>
                   /\ runs[n] = 0
                   /\ st[n] \in {"BLOCKED", "NOT_STARTED", "READY"}
            /\ (n.kind = "fcst_ds" /\ st[n] # "NOT_STARTED"
                /\ ~IsFile(files, Existing(n.cycle, n.lead))) =>
                   (runs[n] = 0 /\ st[n] = "BLOCKED")
            /\ (RunOver /\ st[n] # "NOT_STARTED" /\ n.kind # "existing"
                /\ \A d \in Needs(n, conf) : d \in Tasks /\ st[d] = "READY") =>
                   /\ st[n] \in {"READY", "UNREADY", "FAILED"}
                   /\ runs[n] = 1 \/ st[n] = "READY"
                   /\ (n.kind \in ProxyKinds /\ IsFile(files, n) /\ st[n] # "FAILED") =>
                          st[n] = "READY"

C3_Witness ==
    /\ RunOver /\ conf.root = "stats"
    /\ \E d \in Tasks :
         /\ d.kind = "fcst_ds" /\ st[d] = "BLOCKED"
         /\ ~IsFile(files, Existing(d.cycle, d.lead))
         /\ st[GridNc(d.cycle, d.lead, 1)] = "BLOCKED"
         /\ st[Stat("forecast", 1, d.cycle, d.lead)] = "BLOCKED"
    /\ \E s \in Tasks : s.kind = "stat" /\ st[s] = "READY" /\ runs[s] = 1

\* C4: a file-backed task whose file exists when the run starts is found
\* ready and its body is not run.
C4_ExistingArtifactNotRebuilt ==
    phase = "exec" =>
        \A n \in Tasks :
            (n.kind \in ProxyKinds /\ IsFile(atStart, n) /\ st[n] # "NOT_STARTED") =>
                (st[n] = "READY" /\ runs[n] = 0)

\* every step a step depends on, directly or through other steps
RECURSIVE UpstreamOf(_, _)
UpstreamOf(S, c) ==
    LET T == S \cup UNION {Needs(n, c) : n \in S}
    IN  IF T = S THEN S ELSE UpstreamOf(T, c)

\* the steps at which something went wrong: unavailable, or the body raised
RootCauses == {m \in Tasks : st[m] \in {"UNREADY", "FAILED"}}

\* a step the request or a step that was not ready has asked for
Reached(n) ==
    \/ n \in RootReqs(conf)
    \/ \E p \in Tasks : n \in Needs(p, conf) /\ st[p] \notin {"READY", "NOT_STARTED"}

Producing == {n \in Tasks : n.kind # "existing"}

\* the changes of state the two listed paths are made of (the first readiness
\* pass of a request takes a step through DEPENDENCIES_PENDING at once)
ListedMoves ==
    {<<"NOT_STARTED", "DEPENDENCIES_PENDING">>, <<"NOT_STARTED", "BLOCKED">>,
     <<"DEPENDENCIES_PENDING", "RUNNING">>, <<"DEPENDENCIES_PENDING", "BLOCKED">>,
     <<"RUNNING", "READY">>}

\* ... and those a step takes besides: found ready at its first check; ended
\* without its artifact (unavailable) or by an exception (failed)
OtherMoves ==
    {<<"NOT_STARTED", "READY">>, <<"RUNNING", "UNREADY">>, <<"RUNNING", "FAILED">>}

BlockedHasCause ==
    \A n \in Producing :
        st[n] = "BLOCKED" =>
            /\ runs[n] = 0
            /\ \E d \in Needs(n, conf) : d \in Tasks /\ st[d] \in NotReadyEnd

\* C14 as stated: a step only moves NOT_STARTED -> DEPENDENCIES_PENDING ->
\* RUNNING -> READY or NOT_STARTED -> DEPENDENCIES_PENDING -> BLOCKED; a ready
\* step has run; READY and BLOCKED are never left; a blocked step has not run
\* and has a requirement that is not ready.
C14_OnlyListedTransitions ==
    /\ [](phase = "exec" => BlockedHasCause
                            /\ \A n \in Producing : st[n] = "READY" => runs[n] = 1)
    /\ [][phase = "exec" =>
            \A n \in Producing :
                st'[n] # st[n] => <<st[n], st'[n]>> \in ListedMoves]_vars

\* C14, amended: besides the two listed paths a step goes from NOT_STARTED to
\* READY when its artifact is found ready at the first check (its body not
\* run), and from RUNNING to a not-ready end when its body ends without the
\* artifact or raises; READY, BLOCKED and the not-ready ends are never left,
\* the body of a step does not start again, and a blocked step has not run
\* and has a requirement that ended not ready.
C14_Transitions ==
    /\ [](phase = "exec" => BlockedHasCause
                            /\ \A n \in Producing :
                                  (st[n] = "READY" /\ runs[n] = 0) => out[n] = "none")
    /\ [][\A n \in Producing :
            /\ st'[n] # st[n] => <<st[n], st'[n]>> \in ListedMoves \cup OtherMoves
            /\ st[n] \in {"READY"} \cup NotReadyEnd => (st'[n] = st[n] /\ runs'[n] = runs[n])
            /\ (st[n] = "NOT_STARTED" /\ st'[n] = "READY") =>
                   (runs'[n] = 0 /\ AssetReady(n, files, db, mem))
            /\ (st[n] = "RUNNING" /\ st'[n] \in {"UNREADY", "FAILED"}) =>
                   (out'[n] \in {"miss", "raise"} /\ (st'[n] = "FAILED" <=> out'[n] = "raise"))
            /\ (st[n] = "RUNNING" /\ st'[n] = "READY") => out'[n] \in {"ok", "part", "miss"}
          ]_vars

C14_Witness ==
    /\ RunOver /\ conf.root = "stats" /\ conf.compare
    /\ st[IdxFile(0, 0)] = "UNREADY" /\ runs[IdxFile(0, 0)] = 1
    /\ st[IdxData(0, 0)] = "BLOCKED" /\ runs[IdxData(0, 0)] = 0
    /\ st[GridGrib(0, 0, 1)] = "BLOCKED"
    /\ st[GridNc(0, 0, 1)] = "READY" /\ runs[GridNc(0, 0, 1)] = 1
    /\ st[Stat("forecast", 1, 0, 0)] = "BLOCKED"

\* C17: a baseline-field step whose variable is absent from the parsed index
\* (the index holds none of the configured variables, or only others) raises
\* no error and does not fail: it is never ready and its body fetches nothing.
C17_AbsentVariableIsSoft ==
    phase = "exec" =>
        \A n \in Tasks :
            (/\ n.kind = "grid_grib"
             /\ out[IdxData(n.cycle, n.lead)] \in {"ok", "miss"}
             /\ n.var \notin mem[IdxData(n.cycle, n.lead)]) =>
                /\ out[n] # "raise"
                /\ st[n] # "FAILED"

\* C18: a forecast-field step whose variable is absent from the forecast
\* dataset raises no error and does not fail: it ends not ready and the
\* comparisons that need it are skipped.
C18_AbsentFieldIsSoft ==
    phase = "exec" =>
        \A n \in Tasks :
            (/\ n.kind = "grid_nc"
             /\ out[FcstDs(n.cycle, n.lead)] \in {"ok", "part"}
             /\ n.var \notin mem[FcstDs(n.cycle, n.lead)]) =>
                /\ out[n] # "raise"
                /\ st[n] # "FAILED"

\* C19: a comparison whose engine exits without writing the statistics file
\* (no such file being there from before the run) raises no error: from then
\* on the step is not ready (unavailable, not failed), its file is absent and
\* its readiness predicate false, and the plots that need it are skipped with
\* their bodies never run.
C19_EngineFailureIsSoft ==
    phase = "exec" =>
        \A n \in Tasks :
            (n.kind = "stat" /\ out[n] = "miss" /\ ~IsFile(atStart, n)) =>
                /\ st[n] = "UNREADY"
                /\ ~IsFile(files, n)
                /\ ~AssetReady(n, files, db, mem)
                /\ \A p \in Tasks :
                      (p.kind = "plot" /\ n \in Needs(p, conf)) =>
                          (runs[p] = 0 /\ st[p] = "BLOCKED")

C19_Witness ==
    /\ RunOver /\ conf.root = "plots" /\ conf.compare
    /\ out[Stat("baseline", 1, 0, 0)] = "miss"
    /\ st[Stat("forecast", 1, 0, 0)] = "READY"
    /\ st[Plot(0, 1)] = "BLOCKED"

(***************************************************************************)
(* Claims about the index and the Range header                             *)
(***************************************************************************)

\* the offsets of the records are o_1 < ... < o_n
Ascending ==
    \A i \in 1..(Len(ix.lines) - 1) : ix.lines[i].off < ix.lines[i + 1].off

\* C15: for an index with offsets o_1 < ... < o_n the variable built from
\* record i < n has firstbyte o_i and lastbyte o_(i+1) - 1, the one built
\* from record n has firstbyte o_n and lastbyte None; the end marker yields
\* no variable, and no byte bound is negative.
C15_ByteRanges ==
    (ix.pc \in {"pair", "done"} /\ Ascending) =>
        LET n == Len(ix.lines)
        IN  /\ Len(ix.built) = ix.pos - 1
            /\ Len(ix.built) <= n
            /\ ix.pc = "done" => Len(ix.built) = n
            /\ \A i \in 1..Len(ix.built) :
                  /\ ix.built[i].name = ix.lines[i].name
                  /\ ix.built[i].firstbyte = ix.lines[i].off
                  /\ ix.built[i].firstbyte >= 0
                  /\ i < n => ix.built[i].lastbyte = Some(ix.lines[i + 1].off - 1)
                  /\ i = n => ix.built[i].lastbyte = None
                  /\ ix.built[i].lastbyte # None => ix.built[i].lastbyte[1] >= 0
            /\ \A v \in 1..NumVars :
                  ix.idxdata[v] # None =>
                      \E i \in 1..Len(ix.built) : ix.idxdata[v] = Some(ix.built[i])

C15_Witness ==
    /\ ix.pc = "done" /\ Ascending /\ Len(ix.lines) = 3
    /\ ix.lines[1].name = 1 /\ ix.lines[2].name = 2 /\ ix.lines[3].name = 0
    /\ ix.lines[1].off = 0 /\ ix.lines[2].off = 2
    /\ ix.idxdata[1] = Some([name |-> 1, firstbyte |-> 0, lastbyte |-> Some(1)])
    /\ ix.idxdata[2] =
          Some([name |-> 2, firstbyte |-> 2, lastbyte |-> Some(ix.lines[3].off - 1)])
    /\ ix.built[3].lastbyte = None

\* C16: the header built for a variable whose range has a last byte is
\* bytes=<first>-<last>, whatever first and last are, and is bytes=<first>
\* only when the range has no upper bound.
C16_RangeHeader ==
    (ix.header # None /\ Ascending) =>
        LET var_idxdata == ix.idxdata[ix.hvar][1]
            header == ix.header[1]
        IN  /\ header.first = var_idxdata.firstbyte
            /\ header.last = var_idxdata.lastbyte

(***************************************************************************)
(* Claims about the output paths                                           *)
(***************************************************************************)

\* C20: two distinct keys requested in a run never have the same output
\* path; in particular the comparison of a variable against the baseline
\* and the one of the forecast never share a prefix.
C20_PathsDistinct ==
    \A i, j \in 1..Len(pt.req) :
        pt.req[i].key # pt.req[j].key => pt.req[i].path # pt.req[j].path

\* C36: two requests of the same step kind whose arguments compare equal
\* (their time coordinates being equal when they share a validity time)
\* derive the same output path and, for baseline grids, the same remote URL.
C36_EqualArgumentsSameArtifact ==
    \A i, j \in 1..Len(pt.req) :
        EqualArguments(pt.req[i].key, pt.req[j].key)
            => /\ pt.req[i].path = pt.req[j].path
               /\ pt.req[i].key.kind = "grid_grib"
                    => GridGribUrl(pt.req[i].key) = GridGribUrl(pt.req[j].key)

(***************************************************************************)
(* Claims about the requirements                                           *)
(***************************************************************************)
\* the number of (variable, level) pairs of a variable table
RECURSIVE NumPairs(_)
NumPairs(variables) ==
    IF variables = <<>> THEN 0
    ELSE (IF Head(variables).levels = None THEN 1 ELSE Len(Head(variables).levels[1]))
         + NumPairs(Tail(variables))

\* N: the number of validity times times the number of (variable, level) pairs
NumGrids(c) == c.ncycles * (c.maxlead + 1) * NumPairs(SubSeq(VariableTable, 1, c.nvars))

Flag(b) == IF b THEN 1 ELSE 0
CountOf(reqs, kind) == Cardinality({i \in 1..Len(reqs) : reqs[i].kind = kind})

\* C33: grids(c, baseline, forecast) requires N forecast grids when forecast
\* is set, N zero-lead baseline grids when baseline is set and N more baseline
\* grids at the forecast's own cycle and lead time when baseline is set and
\* baseline.compare is true, and nothing else; N is the number of validity
\* times times the number of (variable, level) pairs, a variable without
\* levels counting once.
C33_GridsRequirements ==
    (wf.pc = "done" /\ wf.op = "grids") =>
        LET n == NumGrids(wf.c)
            zero == [int |-> TRUE, n |-> 0]
            pairs == Product(VxVars(wf.c), Validtimes(CyclesOf(wf.c), LeadtimesOf(wf.c)))
            Has(node) == \E i \in 1..Len(wf.reqs) : wf.reqs[i] = node
        IN  /\ Len(pairs) = n
            /\ Len(wf.reqs) = n * (Flag(wf.forecast)
                                   + Flag(wf.baseline) * (1 + Flag(wf.c.compare)))
            /\ CountOf(wf.reqs, "grid_nc") = n * Flag(wf.forecast)
            /\ CountOf(wf.reqs, "grid_grib")
                 = n * Flag(wf.baseline) * (1 + Flag(wf.c.compare))
            /\ \A k \in 1..Len(pairs) :
                 LET var == pairs[k][1].var
                     tc == pairs[k][2]
                 IN  /\ wf.forecast => Has(GridNcNode(pairs[k][1].varname, tc, var))
                     /\ wf.baseline => Has(GridGribNode(TimeCoords(tc.validtime, zero), var))
                     /\ (wf.baseline /\ wf.c.compare) => Has(GridGribNode(tc, var))

C33_Witness ==
    /\ wf.pc = "done"
    /\ wf.op = "grids"
    /\ wf.baseline /\ wf.forecast /\ wf.c.compare
    /\ NumGrids(wf.c) = 6
    /\ Len(wf.reqs) = 18

\* C34: _statreqs(c, varname, level, cycle) returns one forecast-source step
\* per validity time of the matching (variable, level), in ascending order,
\* followed, exactly when baseline.compare is true, by one baseline-source
\* step per validity time; a forecast step carries the lower-cased forecast
\* name and the variable string with "_" for "-" as its prefix, a baseline
\* step the same with the baseline name; with a cycle given the validity
\* times are that cycle's, otherwise those of all configured cycles.
C34_StatreqsOrder ==
    (wf.pc = "done" /\ wf.op = "_statreqs") =>
        LET c == wf.c
            table == SubSeq(VariableTable, 1, c.nvars)
            matching == {i \in 1..Len(table) :
                           /\ table[i].varname = wf.varname
                           /\ IF table[i].levels = None THEN wf.level = None
                              ELSE \E j \in 1..Len(table[i].levels[1]) :
                                      wf.level = Some(table[i].levels[1][j])}
            cycles == IF wf.cycle = None
                      THEN {(h - 1) * TicksPerHour : h \in 1..c.ncycles}
                      ELSE {wf.cycle[1]}
            n == IF matching = {} THEN 0 ELSE Cardinality(cycles) * (c.maxlead + 1)
            Segment(first, source, name) ==
                /\ \A i \in first..(first + n - 1) :
                     LET r == wf.reqs[i]
                     IN  /\ r.kind = "stat"
                         /\ r.source = source
                         /\ r.varname = wf.varname
                         /\ r.var.level = wf.level
                         /\ \E m \in matching : /\ r.var.name = table[m].name
                                                /\ r.var.level_type = table[m].level_type
                         /\ r.prefix = [name |-> Lower(name),
                                        var |-> [sep |-> "_", id |-> r.var]]
                         /\ r.tc.cycle \in cycles
                         /\ r.tc.validtime = r.tc.cycle + r.tc.leadtime
                /\ \A cy \in cycles, l \in 0..c.maxlead :
                     n = 0 \/ \E i \in first..(first + n - 1) :
                        /\ wf.reqs[i].tc.cycle = cy
                        /\ wf.reqs[i].tc.leadtime = l * TicksPerHour
                /\ \A i, j \in first..(first + n - 1) :
                     i < j => wf.reqs[i].tc.validtime <= wf.reqs[j].tc.validtime
        IN  /\ Len(wf.reqs) = n * (1 + Flag(c.compare))
            /\ Segment(1, "forecast", c.fname)
            /\ c.compare => Segment(n + 1, "baseline", c.bname)

C34_Witness ==
    /\ wf.pc = "done"
    /\ wf.op = "_statreqs"
    /\ wf.c.compare
    /\ wf.cycle = None
    /\ wf.c.ncycles = 2
    /\ wf.c.maxlead = 1
    /\ Len(wf.reqs) = 8
    /\ wf.reqs[1].source = "forecast"
    /\ wf.reqs[5].source = "baseline"

(***************************************************************************)
(* Claims about expand                                                     *)
(***************************************************************************)
StrictlyAscending(xs) == \A i \in 1..(Len(xs) - 1) : xs[i] < xs[i + 1]

\* C21: for stop >= start, expand returns the series start, start + step, ...
\* up to the first value >= stop: the list it builds begins with start, is
\* strictly ascending and has every element but the last below stop, and
\* the list it returns ends with a value >= stop; expand(start, step, start)
\* is [start].
C21_ExpandSeries ==
    (ex.pc \in {"loop", "returned"} /\ ex.stop >= ex.start) =>
        /\ Len(ex.xs) >= 1
        /\ ex.xs[1] = ex.start
        /\ StrictlyAscending(ex.xs)
        /\ \A i \in 1..(Len(ex.xs) - 1) : ex.xs[i] < ex.stop
        /\ ex.pc = "returned" => Last(ex.xs) >= ex.stop
        /\ (ex.pc = "returned" /\ ex.stop = ex.start) => ex.xs = <<ex.start>>

\* C22: expand raises the range error if and only if stop < start; when it
\* raises, no list has been built, and when stop >= start it does not raise.
C22_RaisesIffStopPrecedesStart ==
    /\ ex.pc = "raised" => (ex.stop < ex.start /\ ex.xs = <<>>)
    /\ ex.pc \in {"loop", "returned"} => ex.stop >= ex.start

C22_Witness == ex.pc = "raised" /\ ex.stop < ex.start

\* C39: given stop >= start, expand returns if and only if step > 0 or
\* start = stop: with step > 0 after exactly ceil((stop - start) / step)
\* appends, with start = stop at once with [start] whatever the step; with
\* any other step it never returns.
C39_ExpandTerminates ==
    LET ok == ex.stop >= ex.start
        ends == ex.step > 0 \/ ex.start = ex.stop
    IN  /\ [](ok /\ ex.pc = "returned" =>
                /\ ends
                /\ ex.step > 0 =>
                      Len(ex.xs) - 1 = (ex.stop - ex.start + ex.step - 1) \div ex.step
                /\ ex.start = ex.stop => ex.xs = <<ex.start>>)
        /\ (ok /\ ends) ~> (ex.pc = "returned")

C39_Witness ==
    /\ ex.pc = "returned" /\ ex.start = 0 /\ ex.step = 2 /\ ex.stop = 3
    /\ ex.xs = <<0, 2, 4>>

(***************************************************************************)
(* Claims about TimeCoords                                                 *)
(***************************************************************************)
\* C23: a == b iff a.cycle + a.leadtime = b.cycle + b.leadtime, a < b iff
\* the validity time of a is earlier than that of b, and hash(a) is the
\* integer timestamp of the validity time of a.
C23_ByValidityTime ==
    tp.pc = "compared" =>
        /\ tp.eq <=> (tp.a.cycle + tp.a.leadtime = tp.b.cycle + tp.b.leadtime)
        /\ tp.lt <=> (tp.a.validtime < tp.b.validtime)
        /\ tp.hasha = IntTimestamp(tp.a.cycle + tp.a.leadtime)
        /\ tp.hashb = IntTimestamp(tp.b.cycle + tp.b.leadtime)

(***************************************************************************)
(* Claims about what a stats request creates                               *)
(***************************************************************************)
\* the artifacts of one kind that the run has created
Created(kind) == {n \in Tasks : n.kind = kind /\ runs[n] = 1 /\ st[n] = "READY"}

\* a run that met no missing input, no left-over artifact and no failure
CleanRunOver == RunOver /\ faults = 0

\* C24: with 1 cycle, 2 lead times, 1 variable and only the forecast
\* comparison enabled, a stats request creates exactly 1 index-data
\* artifact, 2 baseline fields, 2 forecast fields and 2 comparisons.
C24_ScenarioArtifacts ==
    (/\ CleanRunOver
     /\ conf.root = "stats" /\ ~conf.compare
     /\ conf.nvars = 1 /\ conf.maxlead = 1) =>
        /\ Cardinality(Created("idx_data")) = 1
        /\ Cardinality(Created("grid_grib")) = 2
        /\ Cardinality(Created("grid_nc")) = 2
        /\ Cardinality(Created("stat")) = 2

\* C25: against the same request with baseline.compare false, a stats
\* request with baseline.compare true creates twice the comparisons and the
\* same baseline fields and forecast fields.
C25_CompareOffKeepsFields ==
    (CleanRunOver /\ conf.root = "stats" /\ conf.compare) =>
        LET off == NodesOf([conf EXCEPT !.compare = FALSE])
            OfKind(k) == {n \in off : n.kind = k}
        IN  /\ Cardinality(Created("stat")) = 2 * Cardinality(OfKind("stat"))
            /\ Created("grid_grib") = OfKind("grid_grib")
            /\ Created("grid_nc") = OfKind("grid_nc")

(***************************************************************************)
(* Claims about metlevel                                                   *)
(***************************************************************************)
\* the number a string of decimal digits stands for
RECURSIVE ValueOf(_)
ValueOf(ds) ==
    IF ds = <<>> THEN 0
    ELSE 10 * ValueOf(SubSeq(ds, 1, Len(ds) - 1))
         + (CHOOSE d \in 0..9 : DigitChars[d + 1] = ds[Len(ds)])

\* C26: metlevel returns L, Z or P for atmosphere, heightAboveGround or
\* isobaricInhPa, followed by the integer level (0 when the level is
\* absent) in at least three digits with zeros in front, e.g. L000, Z002,
\* P900, and raises for every other level type.
C26_MetLevel ==
    LET known == ml.level_type \in {"atmosphere", "heightAboveGround", "isobaricInhPa"}
        digits == Tail(ml.result)
        level == IF ml.level = None THEN 0 ELSE ml.level[1]
    IN  /\ ml.pc = "raised" => ~known
        /\ ml.pc = "returned" =>
              /\ known
              /\ ml.level_type = "atmosphere" => Head(ml.result) = "L"
              /\ ml.level_type = "heightAboveGround" => Head(ml.result) = "Z"
              /\ ml.level_type = "isobaricInhPa" => Head(ml.result) = "P"
              /\ Len(digits) >= 3
              /\ \A i \in 1..Len(digits) : \E d \in 1..10 : DigitChars[d] = digits[i]
              /\ ValueOf(digits) = level
              /\ Len(digits) > 3 => digits[1] # "0"
              /\ (ml.level_type = "atmosphere" /\ ml.level = None)
                    => ml.result = <<"L", "0", "0", "0">>
              /\ (ml.level_type = "heightAboveGround" /\ ml.level = Some(2))
                    => ml.result = <<"Z", "0", "0", "2">>
              /\ (ml.level_type = "isobaricInhPa" /\ ml.level = Some(900))
                    => ml.result = <<"P", "9", "0", "0">>

C26_Witness ==
    /\ ml.pc = "returned"
    /\ ml.level_type = "heightAboveGround" /\ ml.level = Some(2)
    /\ ml.result = <<"Z", "0", "0", "2">>

(***************************************************************************)
(* Claims about render                                                     *)
(***************************************************************************)
\* the keys of mapping d that handler h has no case for
UnknownIn(h, d) == {k \in DOMAIN d : k \notin Recognized(h)}

\* the unrecognized keys of a configuration, at every nesting level
Unrecognized(c) ==
    UnknownIn("_top", c)
    \cup UNION {UnknownIn(NestedHandler[k], c[k]) : k \in DOMAIN c \cap DOMAIN NestedHandler}
    \cup UNION {UNION {UnknownIn("_field_mapping_kvpairs", c[k].field[i]) :
                        i \in 1..Len(c[k].field)} :
                 k \in {j \in DOMAIN c \cap {"fcst", "obs"} : "field" \in DOMAIN c[j]}}

\* C27: render raises the error naming an unrecognized key, and returns no
\* text, whenever the configuration has an unrecognized key at any nesting
\* level, and returns the text whenever every key at every level is
\* recognized.
C27_UnsupportedKey ==
    /\ rc.pc = "raised" =>
          /\ rc.error # None
          /\ rc.error[1] \in Unrecognized(rc.config)
          /\ rc.text = None
    /\ rc.pc = "returned" =>
          /\ Unrecognized(rc.config) = {}
          /\ rc.error = None
          /\ rc.text # None
    /\ (rc.pc = "collect" /\ rc.todo = <<>>) => Unrecognized(rc.config) = {}

C27_Witness ==
    /\ rc.pc = "raised"
    /\ rc.error = Some("bar")
    /\ UnknownIn("_top", rc.config) = {}
    /\ "fcst" \in DOMAIN rc.config
    /\ UnknownIn("_fcst_or_obs", rc.config["fcst"]) = {}

(***************************************************************************)
(* Claims about the index file                                             *)
(***************************************************************************)
\* C30: the body of an index-file step (the fetch of the index) starts only
\* after a status probe of its URL, a requirement of the step, has reported
\* the remote index present, so that with the probe reporting it absent the
\* fetch is not attempted.
C30_FetchAfterStatusProbe ==
    \A n \in Tasks :
        (n.kind = "idx_file" /\ runs[n] >= 1) =>
            \E r \in Reqs(n, conf) : r.kind = "status" /\ st[r] = "READY"

(***************************************************************************)
(* Claims about the grid_stat configuration                                *)
(***************************************************************************)
\* C32: whatever variables the configuration declares, level type surface
\* included, the comparison step never calls metlevel with level type
\* surface, so the error for a level type without MET level never leaves it.
C32_NoSurfaceMetLevel ==
    /\ ml.pc # "idle" => ml.level_type # "surface"
    /\ wf.pc # "raised"

\* C40: for every variable of the metadata table, both sources and with or
\* without a mask, the configuration handed to render has only keys render
\* accepts, at every nesting level: render never raises for an unsupported
\* key and the file is written with its text.
C40_GeneratedKeysAccepted ==
    /\ rc.pc # "raised"
    /\ rc.pc # "idle" => Unrecognized(rc.config) = {}
    /\ wf.pc = "written" => rc.text # None

C40_Witness ==
    /\ wf.pc = "written"
    /\ wf.var.name = "refc"
    /\ wf.source = "baseline"
    /\ wf.polyfile
    /\ DOMAIN rc.config["output_flag"] = {"cts", "nbrcnt"}
    /\ "nbrhd" \in DOMAIN rc.config

(***************************************************************************)
(* Claims about the entries of the index data                              *)
(***************************************************************************)
\* the configured variables, and the records of the index without the marker
Configured == {VxVars(wf.c)[i].var : i \in 1..Len(VxVars(wf.c))}
Records == 1..(Len(wf.recs) - 1)

\* the canonical identities the model's records can have: the provider
\* name and level description that name a variable of the table, or unknown
Identity(rec) ==
    LET level_type == CASE rec.levstr.form = "entire atmosphere" -> "atmosphere"
                        [] rec.levstr.form = "mb" -> "isobaricInhPa"
                        [] rec.levstr.form = "surface" -> "surface"
                        [] OTHER -> "unknown"
        name == CASE rec.name = "REFC" /\ level_type = "atmosphere" -> "refc"
                  [] rec.name = "SPFH" /\ level_type = "isobaricInhPa" -> "q"
                  [] OTHER -> "unknown"
    IN  [name |-> name, level_type |-> level_type, level |-> rec.levstr.num]

\* C31: when the index has been read, the mapping has an entry for a record
\* exactly when the record's canonical name, level type and level are those
\* of a configured variable; a record with an unknown provider name or level
\* description has the name unknown, gets no entry and raises nothing; each
\* entry is stored under the string of its variable and carries the byte
\* range of the record it was built from.
C31_EntriesOfConfiguredVariables ==
    wf.pc = "done" =>
        /\ \A i \in Records :
             LET id == Identity(wf.recs[i])
             IN  /\ (\E v \in Configured : SameVar(id, v)) <=>
                        (/\ Str(id) \in DOMAIN wf.idxdata
                         /\ SameVar(wf.idxdata[Str(id)], id))
                 /\ (wf.recs[i].name = "FOO" \/ wf.recs[i].levstr.form = "cloud base") =>
                        /\ id.name = "unknown"
                        /\ Str(id) \notin DOMAIN wf.idxdata
        /\ \A k \in DOMAIN wf.idxdata :
             LET e == wf.idxdata[k]
             IN  /\ k = Str(e)
                 /\ e.name # "unknown"
                 /\ \E v \in Configured : SameVar(e, v)
                 /\ \E i \in Records :
                       /\ SameVar(e, Identity(wf.recs[i]))
                       /\ e.level = wf.recs[i].levstr.num
                       /\ e.firstbyte = wf.recs[i].off
                       /\ e.lastbyte = IF i + 1 \in Records
                                       THEN Some(wf.recs[i + 1].off - 1) ELSE None

C31_Witness ==
    /\ wf.pc = "done"
    /\ Len(wf.recs) = 3
    /\ wf.c.nvars = 2
    /\ wf.recs[1].name = "SPFH" /\ wf.recs[1].levstr = [form |-> "mb", num |-> Whole(900)]
    /\ wf.recs[2].name = "FOO" /\ wf.recs[2].levstr.form = "cloud base"
    /\ DOMAIN wf.idxdata = {"q-isobaricInhPa-0900"}
    /\ wf.idxdata["q-isobaricInhPa-0900"].firstbyte = 0
    /\ wf.idxdata["q-isobaricInhPa-0900"].lastbyte = Some(1)

(***************************************************************************)
(* Claims about the end of a run                                           *)
(***************************************************************************)
\* the body of n has run to its end without an exception
Completed(n) == out[n] \in {"ok", "part", "miss"}

====
